---- MODULE Spec2Model ----
(***************************************************************************)
(* A model of the Shark File System (SFS): the on-disk image (superblock,  *)
(* directory, doubly linked block lists), the engine of sfs-disk.c (block  *)
(* allocator, v-node and descriptor tables, open/close/read/write/remove/  *)
(* list, mount/unmount) and the consistency checker of sfs-fsck.c.         *)
(***************************************************************************)
EXTENDS Integers, Sequences, FiniteSets, TLC

(***************************************************************************)
(* Bounds of the model.                                                    *)
(***************************************************************************)
\* Number of 512-byte blocks of the formatted image (superblock included).
DiskBlocks == 4
\* The caller keeps at most this many descriptors open at the same time.
MaxOpen == 2
\* The caller issues at most this many API calls after sfs_format.
MaxOps == 3
\* Width, in bits, that stands for the 32 bits of uint32_t / block_id.
WordBits == 20

(***************************************************************************)
(* Program constants.                                                      *)
(***************************************************************************)
SFS_BLOCK_SIZE == 512
\* sizeof(sfs_block_hdr_t): type[4], prev_block, next_block
BLOCK_HDR_SIZE == 12
BLOCK_DATA_SIZE == SFS_BLOCK_SIZE - BLOCK_HDR_SIZE
SFS_FILE_NAME_SIZE_LIMIT == 24
\* sizeof(sfs_dir_entry_t): first_block, size, name[24]
DIR_ENTRY_SIZE == 32
DIR_ENTRIES_PER_BLOCK == (SFS_BLOCK_SIZE \div DIR_ENTRY_SIZE) - 1
FILE_COUNT_LIMIT == DIR_ENTRIES_PER_BLOCK
OPEN_FILE_LIMIT == 32
UINT32_MAX == (2 ^ WordBits) - 1
SFS_MAX_FILE_SIZE == UINT32_MAX

\* The type tags, byte for byte.
SFS_BLOCK_TYPE_FREE == <<83, 70, 85, 245>>
SFS_BLOCK_TYPE_FILE == <<83, 70, 70, 230>>
SFS_BLOCK_TYPE_DIR == <<83, 70, 68, 228>>
\* The magic number, its terminating NUL included.
SFS_DISK_MAGIC == <<83, 70, 83, 178, 177, 179, 1, 0>>

\* errno values (the negated value is what the API returns)
ENOENT == 2
EBADF == 9
ENOMEM == 12
EBUSY == 16
EINVAL == 22
EMFILE == 24
EFBIG == 27
ENOSPC == 28
ENAMETOOLONG == 36
ENOMEDIUM == 123
ENOSYS == 38

\* A null pointer; a non-null pointer to a heap object x is <<x>>.
NULL == <<>>

(***************************************************************************)
(* Inputs of the API calls.                                                *)
(***************************************************************************)
RECURSIVE Rep(_, _)
\* n copies of the byte c
Rep(c, n) == IF n = 0 THEN <<>> ELSE <<c>> \o Rep(c, n - 1)

\* File names given to the API, as C strings without their NUL: "a", the
\* empty string, the longest name that fits (23 bytes) and the shortest one
\* that does not (24 bytes).
NameA == <<97>>
NameEmpty == <<>>
NameMax == Rep(109, SFS_FILE_NAME_SIZE_LIMIT - 1)
NameLong == Rep(120, SFS_FILE_NAME_SIZE_LIMIT)
Names == {NameA, NameEmpty, NameLong}

\* Lengths given to read and write: nothing, one block exactly, more than
\* one block, more than the whole image holds, more than a file may hold.
Lens == {0, BLOCK_DATA_SIZE, BLOCK_DATA_SIZE + 200,
         DiskBlocks * BLOCK_DATA_SIZE, UINT32_MAX}

\* The caller's buffers: byte i of the buffer with seed s (never NUL, so
\* that written bytes differ from the zeroes of a fresh image).
Seeds == {0}
BufByte(seed, i) == 1 + ((seed + i) % 255)

\* Descriptors given to close, read and write.
Fds == (0 .. MaxOpen) \cup {-1, OPEN_FILE_LIMIT}

(***************************************************************************)
(* Small helpers of sfs-disk.c.                                            *)
(***************************************************************************)
\* A faulty roundUp: an exact multiple of n is rounded to the next one.
roundUp_PastMultiple(size, n) ==
    LET s == IF size = 0 THEN 1 ELSE size
    IN  n * (s \div n + 1)

\* A faulty roundUp: without the special case of size 0.
roundUp_NoZeroCase(size, n) == n * ((size + (n - 1)) \div n)

roundUp(size, n) ==
    LET s == IF size = 0 THEN 1 ELSE size
    IN  n * ((s + (n - 1)) \div n)

\* A faulty sizeMin: always its first argument.
sizeMin_First(a, b) == a

sizeMin(a, b) == IF a < b THEN a ELSE b

\* strlen of a NUL-padded char array: the bytes before the first NUL
RECURSIVE strlenFrom(_, _)
strlenFrom(arr, i) ==
    IF i > Len(arr) \/ arr[i] = 0 THEN i - 1 ELSE strlenFrom(arr, i + 1)
strlen(arr) == strlenFrom(arr, 1)

\* strcmp(arr, s) == 0 for the on-disk array arr and the C string s
strcmpEq(arr, s) == SubSeq(arr, 1, strlen(arr)) = s

(***************************************************************************)
(* The disk image.  disk.files[i] (i in 0..14) are the directory entries   *)
(* of the superblock, disk.blk[id] (id in 1..n_blocks-1) the blocks with   *)
(* their headers and payload.                                              *)
(***************************************************************************)
ZeroName == Rep(0, SFS_FILE_NAME_SIZE_LIMIT)
ZeroData == [i \in 0 .. BLOCK_DATA_SIZE - 1 |-> 0]
ZeroEntry == [first_block |-> 0, size |-> 0, name |-> ZeroName]

\* The host's page size: the smallest one sfs_format accepts
\* (pagesize % SFS_BLOCK_SIZE == 0).
PageSize == SFS_BLOCK_SIZE
SFS_MAX_DISK_SIZE == (UINT32_MAX + 1) * SFS_BLOCK_SIZE

\* A faulty format loop: the last block's next is not terminated.
FormattedImage_Unterminated(n_blocks) ==
    [magic |-> SFS_DISK_MAGIC,
     n_blocks |-> n_blocks,
     freelist |-> 1,
     next_rootdir |-> 0,
     files |-> [i \in 0 .. DIR_ENTRIES_PER_BLOCK - 1 |-> ZeroEntry],
     blk |-> [idx \in 1 .. n_blocks - 1 |->
                [type |-> SFS_BLOCK_TYPE_FREE,
                 prev_block |-> idx - 1,
                 next_block |-> idx + 1,
                 data |-> ZeroData]]]

\* The image sfs_format leaves behind: every byte zero but the magic,
\* n_blocks, freelist and the headers of the blocks 1 .. n_blocks-1.
FormattedImage(n_blocks) ==
    [magic |-> SFS_DISK_MAGIC,
     n_blocks |-> n_blocks,
     freelist |-> 1,
     next_rootdir |-> 0,
     files |-> [i \in 0 .. DIR_ENTRIES_PER_BLOCK - 1 |-> ZeroEntry],
     blk |-> [idx \in 1 .. n_blocks - 1 |->
                [type |-> SFS_BLOCK_TYPE_FREE,
                 prev_block |-> idx - 1,
                 next_block |-> IF idx + 1 = n_blocks THEN 0 ELSE idx + 1,
                 data |-> ZeroData]]]

\* uint64_t n_blocks = diskSize / SFS_BLOCK_SIZE, and what the cast to
\* uint32_t would store in the superblock.
formatBlockCount(diskSize) == diskSize \div SFS_BLOCK_SIZE
storedBlockCount(diskSize) == formatBlockCount(diskSize) % (UINT32_MAX + 1)
\* assert(n_blocks <= (uint64_t)UINT32_MAX)
formatAssertion(diskSize) == formatBlockCount(diskSize) <= UINT32_MAX

\* sfs_format(diskName, diskSize) with diskBlocks the current mapping
\* (0 is NULL): the status and, on success, the new image; crash when the
\* assertion on n_blocks fails and the call does not return.
sfs_format(diskBlocksNow, diskSize) ==
    IF diskSize = 0 \/ diskSize % PageSize # 0 THEN [ret |-> -EINVAL]
    ELSE IF diskSize > SFS_MAX_DISK_SIZE THEN [ret |-> -EFBIG]
    ELSE IF diskBlocksNow # 0 THEN [ret |-> -EBUSY]
    ELSE IF ~formatAssertion(diskSize) THEN [ret |-> 0, crash |-> TRUE]
    ELSE [ret |-> 0, disk |-> FormattedImage(storedBlockCount(diskSize))]

(***************************************************************************)
(* Block layer.                                                            *)
(***************************************************************************)
\* accessBlock asserts id < n_blocks
validId(d, id) == id < d.n_blocks
\* accessFreeBlock / accessFileBlock: the assertion holds (a null id passes)
isFreeBlock(d, id) ==
    validId(d, id) /\ (id # 0 => d.blk[id].type = SFS_BLOCK_TYPE_FREE)
isFileBlock(d, id) ==
    validId(d, id) /\ (id # 0 => d.blk[id].type = SFS_BLOCK_TYPE_FILE)

setBlockType(d, b, type) == [d EXCEPT !.blk[b].type = type]

(***************************************************************************)
(* Allocator.                                                              *)
(***************************************************************************)
\* The loop "for (i = 1; i < n_blocks; i++)" of allocateBlocks: the id of
\* the last block to allocate, 0 when the free list is too short, -1 when
\* accessFreeBlock's assertion fails.
RECURSIVE allocWalk(_, _, _, _)
allocWalk(d, last_alloc_id, i, n_blocks) ==
    IF i >= n_blocks THEN last_alloc_id
    ELSE IF d.blk[last_alloc_id].next_block = 0 THEN 0
    ELSE IF ~isFreeBlock(d, d.blk[last_alloc_id].next_block) THEN -1
    ELSE allocWalk(d, d.blk[last_alloc_id].next_block, i + 1, n_blocks)

\* A faulty retagging loop: it stops after the first block.
allocSetTypes_OnlyFirst(d, b, type) ==
    IF b = 0 THEN [disk |-> d, abort |-> FALSE]
    ELSE [disk |-> setBlockType(d, b, type), abort |-> FALSE]

\* The loop that retags the detached chain, from block b on.
RECURSIVE allocSetTypes(_, _, _)
allocSetTypes(d, b, type) ==
    IF b = 0 THEN [disk |-> d, abort |-> FALSE]
    ELSE IF ~isFreeBlock(d, d.blk[b].next_block)
         THEN [disk |-> setBlockType(d, b, type), abort |-> TRUE]
    ELSE allocSetTypes(setBlockType(d, b, type), d.blk[b].next_block, type)

\* A faulty allocateBlocks: takes the free list's first block, however many
\* are asked for, and leaves the tail of the free list linked behind it.
allocateBlocks_NoCut(d, n_blocks, type) ==
    IF d.freelist = 0 \/ n_blocks = 0
    THEN [id |-> 0, disk |-> d, abort |-> FALSE]
    ELSE [id |-> d.freelist,
          disk |-> setBlockType([d EXCEPT !.freelist =
                                    d.blk[d.freelist].next_block],
                                d.freelist, type),
          abort |-> FALSE]

\* A faulty allocateBlocks: when the free list is too short it still takes
\* the first free block off the list before it returns 0.
allocateBlocks_LeakOnShortage(d, n_blocks, type) ==
    IF d.freelist = 0 \/ n_blocks = 0
    THEN [id |-> 0, disk |-> d, abort |-> FALSE]
    ELSE
    LET first_alloc_id == d.freelist
        last_alloc_id == allocWalk(d, first_alloc_id, 1, n_blocks)
        next_free_id == d.blk[first_alloc_id].next_block
    IN  IF last_alloc_id <= 0
        THEN [id |-> 0,
              disk |-> [d EXCEPT !.freelist = next_free_id,
                                 !.blk[first_alloc_id].next_block = 0],
              abort |-> FALSE]
        ELSE
        LET after == d.blk[last_alloc_id].next_block
            d1 == IF after # 0
                  THEN [d EXCEPT !.blk[after].prev_block = 0,
                                 !.blk[last_alloc_id].next_block = 0]
                  ELSE d
            r == allocSetTypes([d1 EXCEPT !.freelist = after],
                               first_alloc_id, type)
        IN  [id |-> first_alloc_id, disk |-> r.disk, abort |-> r.abort]

\* allocateBlocks(n_blocks, type): the first block's id (0: nothing was
\* allocated), the image afterwards, and whether an assertion failed.
allocateBlocks(d, n_blocks, type) ==
    IF d.freelist = 0 \/ n_blocks = 0
    THEN [id |-> 0, disk |-> d, abort |-> FALSE]
    ELSE IF ~isFreeBlock(d, d.freelist)
    THEN [id |-> 0, disk |-> d, abort |-> TRUE]
    ELSE
    LET first_alloc_id == d.freelist
        last_alloc_id == allocWalk(d, first_alloc_id, 1, n_blocks)
    IN  IF last_alloc_id = 0 THEN [id |-> 0, disk |-> d, abort |-> FALSE]
        ELSE IF last_alloc_id = -1 THEN [id |-> 0, disk |-> d, abort |-> TRUE]
        ELSE
        LET next_free_id == d.blk[last_alloc_id].next_block
        IN  IF ~isFreeBlock(d, next_free_id)
            THEN [id |-> 0, disk |-> d, abort |-> TRUE]
            ELSE
            LET d1 == IF next_free_id # 0
                      THEN [d EXCEPT !.blk[next_free_id].prev_block = 0,
                                     !.blk[last_alloc_id].next_block = 0]
                      ELSE d
                d2 == [d1 EXCEPT !.freelist = next_free_id]
                r == allocSetTypes(d2, first_alloc_id, type)
            IN  [id |-> first_alloc_id, disk |-> r.disk, abort |-> r.abort]

\* A faulty freeWalk: walks the chain without retagging its blocks.
RECURSIVE freeWalk_NoRetag(_, _)
freeWalk_NoRetag(d, b) ==
    IF d.blk[b].type = SFS_BLOCK_TYPE_FREE
    THEN [disk |-> d, last |-> b, abort |-> TRUE]
    ELSE IF d.blk[b].next_block = 0
         THEN [disk |-> d, last |-> b, abort |-> FALSE]
         ELSE freeWalk_NoRetag(d, d.blk[b].next_block)

\* The loop of freeBlocks from block b on: the image with the blocks
\* retagged, the last block of the chain, and whether the assertion failed.
RECURSIVE freeWalk(_, _)
freeWalk(d, b) ==
    IF d.blk[b].type = SFS_BLOCK_TYPE_FREE
    THEN [disk |-> d, last |-> b, abort |-> TRUE]
    ELSE LET d1 == setBlockType(d, b, SFS_BLOCK_TYPE_FREE)
         IN  IF d1.blk[b].next_block = 0
             THEN [disk |-> d1, last |-> b, abort |-> FALSE]
             ELSE freeWalk(d1, d1.blk[b].next_block)

\* A faulty freeBlocks: the freed chain replaces the free list instead of
\* going in front of it.
freeBlocks_DropsFreeList(d, first_block) ==
    LET w == freeWalk(d, first_block)
    IN  IF w.abort THEN [disk |-> w.disk, abort |-> TRUE]
        ELSE [disk |-> [w.disk EXCEPT !.blk[w.last].next_block = 0,
                                      !.freelist = first_block],
              abort |-> FALSE]

\* A faulty freeBlocks: the freed chain goes behind the first block of the
\* free list instead of in front of it.
freeBlocks_BehindHead(d, first_block) ==
    LET w == freeWalk(d, first_block)
        head == d.freelist
    IN  IF w.abort THEN [disk |-> w.disk, abort |-> TRUE]
        ELSE IF head = 0
        THEN [disk |-> [w.disk EXCEPT !.freelist = first_block],
              abort |-> FALSE]
        ELSE [disk |-> [w.disk EXCEPT
                           !.blk[w.last].next_block = d.blk[head].next_block,
                           !.blk[head].next_block = first_block],
              abort |-> FALSE]

\* freeBlocks(first_block)
freeBlocks(d, first_block) ==
    LET p == d.blk[first_block].prev_block
        d1 == IF p # 0
              THEN [d EXCEPT !.blk[p].next_block = 0,
                             !.blk[first_block].prev_block = 0]
              ELSE d
        w == freeWalk(d1, first_block)
    IN  IF w.abort THEN [disk |-> w.disk, abort |-> TRUE]
        ELSE [disk |-> [w.disk EXCEPT !.blk[w.last].next_block = w.disk.freelist,
                                      !.freelist = first_block],
              abort |-> FALSE]

(***************************************************************************)
(* The engine's memory.  A world w is a record                             *)
(*   disk       the image file (it outlives the mapping),                  *)
(*   diskBlocks the address the image is mapped at, 0 for NULL,            *)
(*   openFileTable      [0..14]: NULL or <<v-node>>,                       *)
(*   openFileDescTable  [0..31]: NULL or <<descriptor>>.                   *)
(* A v-node's diskFile points into the mapping: [base, idx] is the address *)
(* of files[idx] in the mapping at base.  A descriptor's fileEntry points  *)
(* to the v-node of openFileTable[fileEntry].                              *)
(***************************************************************************)
\* Addresses mmap may return.
MapBases == {1, 2}

EmptyOpenFileTable == [i \in 0 .. FILE_COUNT_LIMIT - 1 |-> NULL]
EmptyOpenFileDescTable == [i \in 0 .. OPEN_FILE_LIMIT - 1 |-> NULL]

getSFSStatus(w) == IF w.diskBlocks = 0 THEN -EINVAL ELSE 0

\* Dereferencing pointer p into the mapping does not fault.
mapped(w, p) == w.diskBlocks # 0 /\ p.base = w.diskBlocks

Result(w, ret) == [w |-> w, ret |-> ret, crash |-> FALSE]
\* The process died inside the call (failed assertion, fault): the call
\* never returns, and of w only the image matters any more.
Crash(w) == [w |-> w, ret |-> 0, crash |-> TRUE]

\* A faulty descriptor search: it takes the highest empty slot.
firstFreeFd_Highest(w) ==
    IF \E idx \in 0 .. OPEN_FILE_LIMIT - 1 : w.openFileDescTable[idx] = NULL
    THEN CHOOSE idx \in 0 .. OPEN_FILE_LIMIT - 1 :
            /\ w.openFileDescTable[idx] = NULL
            /\ \A j \in idx + 1 .. OPEN_FILE_LIMIT - 1 :
                  w.openFileDescTable[j] # NULL
    ELSE -1

\* The first empty slot of the descriptor table, -1 if there is none.
firstFreeFd(w) ==
    IF \E idx \in 0 .. OPEN_FILE_LIMIT - 1 : w.openFileDescTable[idx] = NULL
    THEN CHOOSE idx \in 0 .. OPEN_FILE_LIMIT - 1 :
            /\ w.openFileDescTable[idx] = NULL
            /\ \A j \in 0 .. idx - 1 : w.openFileDescTable[j] # NULL
    ELSE -1

\* addOpenFileEntry(entryIndex).  nomem = k means the k-th malloc of the
\* call returns NULL (0: none does).
addOpenFileEntry(w, entryIndex, nomem) ==
    LET fd == firstFreeFd(w)
    IN  IF fd # -1 /\ nomem = 1 THEN Result(w, -ENOMEM)
        ELSE IF fd = -1 THEN Result(w, -EMFILE)
        ELSE IF w.openFileTable[entryIndex] = NULL /\ nomem = 2
        THEN Result(w, -ENOMEM)
        ELSE
        LET old == w.openFileTable[entryIndex]
            fileEntry0 == IF old = NULL
                          THEN [refCount |-> 0,
                                fileEntryIdx |-> entryIndex,
                                diskFile |-> [base |-> w.diskBlocks,
                                              idx |-> entryIndex]]
                          ELSE old[1]
            fileEntry == [fileEntry0 EXCEPT !.refCount = @ + 1]
            w1 == [w EXCEPT !.openFileTable[entryIndex] = <<fileEntry>>]
        IN  IF ~mapped(w, fileEntry.diskFile) THEN Crash(w)
            ELSE
            LET startBlock == w.disk.files[fileEntry.diskFile.idx].first_block
                memDescFile == [fileEntry |-> entryIndex,
                                startBlock |-> startBlock,
                                currBlock |-> startBlock,
                                currPos |-> 0]
            IN  Result([w1 EXCEPT !.openFileDescTable[fd] = <<memDescFile>>],
                       fd)

\* The name field of a new entry: the name, then NULs up to 24 bytes.
paddedName(fileName) ==
    fileName \o Rep(0, SFS_FILE_NAME_SIZE_LIMIT - Len(fileName))

\* A faulty createFile: it does not look at what allocateBlocks returned.
createFile_IgnoresShortage(w, fileName, emptyIndex, nomem) ==
    LET a == allocateBlocks(w.disk, 1, SFS_BLOCK_TYPE_FILE)
        sfe == [first_block |-> a.id, size |-> 0,
                name |-> paddedName(fileName)]
        d1 == [a.disk EXCEPT !.files[emptyIndex] = sfe]
    IN  addOpenFileEntry([w EXCEPT !.disk = d1], emptyIndex, nomem)

\* createFile(fileName, emptyIndex)
createFile(w, fileName, emptyIndex, nomem) ==
    LET a == allocateBlocks(w.disk, 1, SFS_BLOCK_TYPE_FILE)
    IN  IF a.abort THEN Crash([w EXCEPT !.disk = a.disk])
        ELSE IF a.id = 0 THEN Result([w EXCEPT !.disk = a.disk], -ENOSPC)
        ELSE
        LET sfe == [first_block |-> a.id, size |-> 0,
                    name |-> paddedName(fileName)]
            d1 == [a.disk EXCEPT !.files[emptyIndex] = sfe]
        IN  addOpenFileEntry([w EXCEPT !.disk = d1], emptyIndex, nomem)

\* A faulty directory scan: it never finds the name.
findEntry_NeverFinds(d, fileName) == -1

\* A faulty directory search: it gives up at the first unused entry.
findEntry_StopsAtUnused(d, fileName) ==
    LET hit(i) == /\ d.files[i].first_block # 0
                  /\ strcmpEq(d.files[i].name, fileName)
                  /\ \A j \in 0 .. i - 1 : d.files[j].first_block # 0
    IN  IF \E i \in 0 .. FILE_COUNT_LIMIT - 1 : hit(i)
        THEN CHOOSE i \in 0 .. FILE_COUNT_LIMIT - 1 :
                hit(i) /\ \A j \in 0 .. i - 1 : ~hit(j)
        ELSE -1

\* The directory scan of sfs_open and sfs_remove: the lowest live entry
\* whose name is fileName, -1 if there is none.
findEntry(d, fileName) ==
    LET hit(i) == d.files[i].first_block # 0 /\ strcmpEq(d.files[i].name, fileName)
    IN  IF \E i \in 0 .. FILE_COUNT_LIMIT - 1 : hit(i)
        THEN CHOOSE i \in 0 .. FILE_COUNT_LIMIT - 1 :
                hit(i) /\ \A j \in 0 .. i - 1 : ~hit(j)
        ELSE -1

\* The lowest unused entry, -1 if there is none.
findEmpty(d) ==
    LET free(i) == d.files[i].first_block = 0
    IN  IF \E i \in 0 .. FILE_COUNT_LIMIT - 1 : free(i)
        THEN CHOOSE i \in 0 .. FILE_COUNT_LIMIT - 1 :
                free(i) /\ \A j \in 0 .. i - 1 : ~free(j)
        ELSE -1

\* strnlen(s, n)
strnlen(s, n) == sizeMin(Len(s), n)

sfs_open(w, fileName, nomem) ==
    IF strnlen(fileName, SFS_FILE_NAME_SIZE_LIMIT + 1) + 1 > SFS_FILE_NAME_SIZE_LIMIT
    THEN Result(w, -ENAMETOOLONG)
    ELSE IF getSFSStatus(w) < 0 THEN Result(w, -ENOMEDIUM)
    ELSE
    LET fileEntry == findEntry(w.disk, fileName)
        emptyEntry == findEmpty(w.disk)
    IN  IF fileEntry # -1 THEN addOpenFileEntry(w, fileEntry, nomem)
        ELSE IF emptyEntry = -1 THEN Result(w, -ENOSPC)
        ELSE createFile(w, fileName, emptyEntry, nomem)

\* A faulty sfs_close: it frees the descriptor and never touches the v-node.
sfs_close_KeepsVnode(w, fd, oob) ==
    IF fd < 0 \/ fd >= OPEN_FILE_LIMIT THEN Result(w, 0)
    ELSE IF w.openFileDescTable[fd] = NULL THEN Result(w, 0)
    ELSE Result([w EXCEPT !.openFileDescTable[fd] = NULL], 0)

\* sfs_close(fd).  oob is what a read of openFileDescTable[OPEN_FILE_LIMIT],
\* one past the array, yields: TRUE for a null pointer, FALSE for any other
\* value, which the code then dereferences and frees.
sfs_close(w, fd, oob) ==
    IF fd < 0 \/ fd > OPEN_FILE_LIMIT THEN Result(w, 0)
    ELSE IF fd = OPEN_FILE_LIMIT
    THEN (IF oob THEN Result(w, 0) ELSE Crash(w))
    ELSE IF w.openFileDescTable[fd] = NULL THEN Result(w, 0)
    ELSE
    LET tFile == w.openFileDescTable[fd][1]
        idx == tFile.fileEntry
        fileEntry == w.openFileTable[idx][1]
        w1 == [w EXCEPT !.openFileDescTable[fd] = NULL]
        \* refCount is a uint32_t
        refCount == (fileEntry.refCount - 1) % (UINT32_MAX + 1)
    IN  IF refCount > 0
        THEN Result([w1 EXCEPT !.openFileTable[idx] =
                        <<[fileEntry EXCEPT !.refCount = refCount]>>], 0)
        ELSE Result([w1 EXCEPT !.openFileTable[fileEntry.fileEntryIdx] = NULL], 0)

\* A faulty sfs_remove: it does not look at the v-node table.
sfs_remove_IgnoresOpen(w, name) ==
    IF Len(name) + 1 > SFS_FILE_NAME_SIZE_LIMIT THEN Result(w, -ENAMETOOLONG)
    ELSE IF getSFSStatus(w) < 0 THEN Result(w, -ENOMEDIUM)
    ELSE
    LET fileEntry == findEntry(w.disk, name)
    IN  IF fileEntry = -1 THEN Result(w, -ENOENT)
        ELSE
        LET f == freeBlocks([w.disk EXCEPT !.files[fileEntry].first_block = 0],
                            w.disk.files[fileEntry].first_block)
        IN  IF f.abort THEN Crash([w EXCEPT !.disk = f.disk])
            ELSE Result([w EXCEPT !.disk = f.disk], 0)

sfs_remove(w, name) ==
    IF Len(name) + 1 > SFS_FILE_NAME_SIZE_LIMIT THEN Result(w, -ENAMETOOLONG)
    ELSE IF getSFSStatus(w) < 0 THEN Result(w, -ENOMEDIUM)
    ELSE
    LET fileEntry == findEntry(w.disk, name)
    IN  IF fileEntry = -1 THEN Result(w, -ENOENT)
        ELSE IF w.openFileTable[fileEntry] # NULL THEN Result(w, -EBUSY)
        ELSE
        LET firstBlock == w.disk.files[fileEntry].first_block
            d1 == [w.disk EXCEPT !.files[fileEntry].first_block = 0]
            f == freeBlocks(d1, firstBlock)
        IN  IF f.abort THEN Crash([w EXCEPT !.disk = f.disk])
            ELSE Result([w EXCEPT !.disk = f.disk], 0)

(***************************************************************************)
(* I/O engine.                                                             *)
(***************************************************************************)
\* A faulty readLoop: the block it reports as the last one read is the
\* first one it was given.
RECURSIVE readLoop_ForgetsBlock(_, _, _, _, _, _)
readLoop_ForgetsBlock(d, diskBlock, blockPos, chunkSize, toRead, out) ==
    LET out1 == IF chunkSize > 0
                THEN out \o [i \in 1 .. chunkSize |->
                                d.blk[diskBlock].data[blockPos + i - 1]]
                ELSE out
        toRead1 == IF chunkSize > 0 THEN toRead - chunkSize ELSE toRead
        next == d.blk[diskBlock].next_block
    IN  IF toRead1 = 0
        THEN [diskBlock |-> diskBlock, out |-> out1, abort |-> FALSE]
        ELSE IF ~isFileBlock(d, next) \/ next = 0
        THEN [diskBlock |-> diskBlock, out |-> out1, abort |-> TRUE]
        ELSE [readLoop_ForgetsBlock(d, next, 0,
                                    sizeMin(BLOCK_DATA_SIZE, toRead1),
                                    toRead1, out1)
                 EXCEPT !.diskBlock = diskBlock]

\* The copy loop of sfs_read, entered with the current block, the offset
\* in it, the size of the chunk to copy, the bytes still to read and the
\* bytes copied so far.
RECURSIVE readLoop(_, _, _, _, _, _)
readLoop(d, diskBlock, blockPos, chunkSize, toRead, out) ==
    LET out1 == IF chunkSize > 0
                THEN out \o [i \in 1 .. chunkSize |->
                                d.blk[diskBlock].data[blockPos + i - 1]]
                ELSE out
        toRead1 == IF chunkSize > 0 THEN toRead - chunkSize ELSE toRead
    IN  IF toRead1 = 0
        THEN [diskBlock |-> diskBlock, out |-> out1, abort |-> FALSE]
        ELSE LET next == d.blk[diskBlock].next_block
             IN  \* accessFileBlock's assertion, then assert(diskBlock != NULL)
                 IF ~isFileBlock(d, next) \/ next = 0
                 THEN [diskBlock |-> diskBlock, out |-> out1, abort |-> TRUE]
                 ELSE readLoop(d, next, 0, sizeMin(BLOCK_DATA_SIZE, toRead1),
                               toRead1, out1)

\* sfs_read(fd, buf, len): the result carries the bytes stored in buf.
sfs_read(w, fd, len, oob) ==
    IF fd < 0 \/ fd > OPEN_FILE_LIMIT THEN Result(w, -EBADF) @@ [out |-> <<>>]
    ELSE IF fd = OPEN_FILE_LIMIT
    THEN (IF oob THEN Result(w, -EBADF) ELSE Crash(w)) @@ [out |-> <<>>]
    ELSE IF w.openFileDescTable[fd] = NULL
    THEN Result(w, -EBADF) @@ [out |-> <<>>]
    ELSE
    LET tFile == w.openFileDescTable[fd][1]
        fileEntry == w.openFileTable[tFile.fileEntry][1]
    IN  IF ~mapped(w, fileEntry.diskFile) THEN Crash(w) @@ [out |-> <<>>]
        ELSE
        LET fileSize == w.disk.files[fileEntry.diskFile.idx].size
            currPos == tFile.currPos
        IN  IF ~(currPos <= fileSize) THEN Crash(w) @@ [out |-> <<>>]
            ELSE IF tFile.currBlock = 0 \/ ~isFileBlock(w.disk, tFile.currBlock)
            THEN Crash(w) @@ [out |-> <<>>]
            ELSE
            LET totalToRead == sizeMin(fileSize - currPos, len)
                blockPos == currPos % BLOCK_DATA_SIZE
                chunkSize == sizeMin(roundUp(currPos, BLOCK_DATA_SIZE) - currPos,
                                     totalToRead)
                r == readLoop(w.disk, tFile.currBlock, blockPos, chunkSize,
                              totalToRead, <<>>)
            IN  IF r.abort THEN Crash(w) @@ [out |-> r.out]
                ELSE Result([w EXCEPT !.openFileDescTable[fd] =
                                <<[tFile EXCEPT !.currBlock = r.diskBlock,
                                                !.currPos = currPos + totalToRead]>>],
                            totalToRead) @@ [out |-> r.out]

\* A faulty copy: buf is not advanced, every chunk comes from its start.
copyIn_BufNotAdvanced(d, diskBlock, blockPos, seed, bufOff, chunkSize) ==
    [d EXCEPT !.blk[diskBlock].data =
        [i \in 0 .. BLOCK_DATA_SIZE - 1 |->
            IF blockPos <= i /\ i < blockPos + chunkSize
            THEN BufByte(seed, i - blockPos)
            ELSE @[i]]]

\* memcpy(&diskBlock->data[blockPos], buf + bufOff, chunkSize)
copyIn(d, diskBlock, blockPos, seed, bufOff, chunkSize) ==
    [d EXCEPT !.blk[diskBlock].data =
        [i \in 0 .. BLOCK_DATA_SIZE - 1 |->
            IF blockPos <= i /\ i < blockPos + chunkSize
            THEN BufByte(seed, bufOff + (i - blockPos))
            ELSE @[i]]]

\* The copy loop of sfs_write.  bufOff is how far buf has advanced.
RECURSIVE writeLoop(_, _, _, _, _, _, _, _)
writeLoop(d, diskBlock, blockPos, chunkSize, seed, bufOff, toWrite, firstNewId) ==
    LET d1 == IF chunkSize > 0
              THEN copyIn(d, diskBlock, blockPos, seed, bufOff, chunkSize)
              ELSE d
        bufOff1 == IF chunkSize > 0 THEN bufOff + chunkSize ELSE bufOff
        toWrite1 == IF chunkSize > 0 THEN toWrite - chunkSize ELSE toWrite
    IN  IF toWrite1 = 0
        THEN [disk |-> d1, diskBlock |-> diskBlock, abort |-> FALSE]
        ELSE
        LET next == d1.blk[diskBlock].next_block
            chunk1 == sizeMin(BLOCK_DATA_SIZE, toWrite1)
        IN  IF ~isFileBlock(d1, next)
            THEN [disk |-> d1, diskBlock |-> diskBlock, abort |-> TRUE]
            ELSE IF next = 0
            THEN \* assert(firstNewId != 0), accessFileBlock(firstNewId)
                 IF firstNewId = 0 \/ ~isFileBlock(d1, firstNewId)
                 THEN [disk |-> d1, diskBlock |-> diskBlock, abort |-> TRUE]
                 ELSE writeLoop([d1 EXCEPT
                                    !.blk[diskBlock].next_block = firstNewId,
                                    !.blk[firstNewId].prev_block = diskBlock],
                                firstNewId, 0, chunk1, seed, bufOff1, toWrite1, 0)
            ELSE writeLoop(d1, next, 0, chunk1, seed, bufOff1, toWrite1,
                           firstNewId)

\* sfs_write(fd, buf, len), buf holding the bytes BufByte(seed, 0 .. len-1)
sfs_write(w, fd, seed, len, oob) ==
    IF fd < 0 \/ fd > OPEN_FILE_LIMIT THEN Result(w, -EBADF)
    ELSE IF fd = OPEN_FILE_LIMIT
    THEN (IF oob THEN Result(w, -EBADF) ELSE Crash(w))
    ELSE IF w.openFileDescTable[fd] = NULL THEN Result(w, -EBADF)
    ELSE
    LET tFile == w.openFileDescTable[fd][1]
        fileEntry == w.openFileTable[tFile.fileEntry][1]
    IN  IF ~mapped(w, fileEntry.diskFile) THEN Crash(w)
        ELSE
        LET entry == fileEntry.diskFile.idx
            fileSize == w.disk.files[entry].size
            currPos == tFile.currPos
            fileAllocSize == roundUp(fileSize, BLOCK_DATA_SIZE)
            endPos == len + currPos
            grow == endPos > fileAllocSize
            fileNewAllocSize == roundUp(endPos, BLOCK_DATA_SIZE)
            \* (uint32_t)((fileNewAllocSize - fileAllocSize) / BLOCK_DATA_SIZE)
            addlBlocks == ((fileNewAllocSize - fileAllocSize) \div BLOCK_DATA_SIZE)
                            % (UINT32_MAX + 1)
            a == IF grow
                 THEN allocateBlocks(w.disk, addlBlocks, SFS_BLOCK_TYPE_FILE)
                 ELSE [id |-> 0, disk |-> w.disk, abort |-> FALSE]
        IN  IF ~(currPos <= fileSize) THEN Crash(w)
            ELSE IF grow /\ fileNewAllocSize > SFS_MAX_FILE_SIZE
            THEN Result(w, -EFBIG)
            ELSE IF grow /\ ~(addlBlocks >= 1) THEN Crash(w)
            ELSE IF a.abort THEN Crash([w EXCEPT !.disk = a.disk])
            ELSE IF grow /\ a.id = 0
            THEN Result([w EXCEPT !.disk = a.disk], -ENOSPC)
            ELSE IF tFile.currBlock = 0 \/ ~isFileBlock(a.disk, tFile.currBlock)
            THEN Crash([w EXCEPT !.disk = a.disk])
            ELSE
            LET blockPos == currPos % BLOCK_DATA_SIZE
                chunkSize == sizeMin(roundUp(currPos, BLOCK_DATA_SIZE) - currPos,
                                     len)
                r == writeLoop(a.disk, tFile.currBlock, blockPos, chunkSize,
                               seed, 0, len, a.id)
            IN  IF r.abort THEN Crash([w EXCEPT !.disk = r.disk])
                ELSE IF endPos > fileSize /\ ~(endPos < SFS_MAX_FILE_SIZE)
                THEN Crash([w EXCEPT !.disk = r.disk])
                ELSE
                LET d2 == IF endPos > fileSize
                          THEN [r.disk EXCEPT !.files[entry].size =
                                                endPos % (UINT32_MAX + 1)]
                          ELSE r.disk
                IN  Result([w EXCEPT
                               !.disk = d2,
                               !.openFileDescTable[fd] =
                                   <<[tFile EXCEPT !.currBlock = r.diskBlock,
                                                   !.currPos = endPos]>>],
                           len)

\* sfs_getpos(fd): not implemented.
sfs_getpos(w, fd) == Result(w, -ENOSYS)

\* sfs_seek(fd, delta): not implemented.
sfs_seek(w, fd, delta) == Result(w, -ENOSYS)

(***************************************************************************)
(* Directory listing, unmount, mount.                                      *)
(***************************************************************************)
\* A faulty directory scan: it gives up at the first unused slot.
listScan_StopsAtHole(d, next_file_slot) ==
    IF next_file_slot >= FILE_COUNT_LIMIT THEN FILE_COUNT_LIMIT
    ELSE IF d.files[next_file_slot].first_block # 0 THEN next_file_slot
    ELSE FILE_COUNT_LIMIT

\* The scan of sfs_list from slot next_file_slot on: the first live slot,
\* FILE_COUNT_LIMIT if there is none.
RECURSIVE listScan(_, _)
listScan(d, next_file_slot) ==
    IF next_file_slot >= FILE_COUNT_LIMIT THEN FILE_COUNT_LIMIT
    ELSE IF d.files[next_file_slot].first_block # 0 THEN next_file_slot
    ELSE listScan(d, next_file_slot + 1)

\* sfs_list(&cookie, filename_out, filename_space): the status, the cookie
\* afterwards (0 is NULL) and what was stored in filename_out (the name with
\* its NUL; <<>> when nothing was stored).
sfs_list(w, cookieNow, filename_space) ==
    IF filename_space = 0
    THEN [ret |-> -EINVAL, cookie |-> cookieNow, out |-> <<>>]
    ELSE IF getSFSStatus(w) < 0
    THEN [ret |-> -ENOMEDIUM, cookie |-> cookieNow, out |-> <<>>]
    ELSE
    LET slot == listScan(w.disk, cookieNow)
    IN  IF slot >= FILE_COUNT_LIMIT
        THEN [ret |-> 1, cookie |-> 0, out |-> <<>>]
        ELSE
        LET len == strlen(w.disk.files[slot].name)
        IN  IF len + 1 > filename_space
            THEN [ret |-> -ENAMETOOLONG, cookie |-> cookieNow, out |-> <<>>]
            ELSE [ret |-> 0, cookie |-> slot + 1,
                  out |-> SubSeq(w.disk.files[slot].name, 1, len + 1)]

\* The loop of the documentation of sfs_list: from cookieNow, call sfs_list
\* with a buffer of 24 bytes until the status is not 0.  names collects what
\* the calls stored; r is bound to the result of one call.
RECURSIVE listLoop(_, _, _)
listLoop(w, cookieNow, names) ==
    CHOOSE res \in
        {IF r.ret # 0
         THEN [names |-> names, ret |-> r.ret, cookie |-> r.cookie]
         ELSE listLoop(w, r.cookie, Append(names, r.out)) :
            r \in {sfs_list(w, cookieNow, SFS_FILE_NAME_SIZE_LIMIT)}} : TRUE

\* sfs_unmount(): the check for open descriptors is commented out in the
\* source; munmap of the mapping succeeds.
sfs_unmount(w) ==
    IF w.diskBlocks = 0 THEN Result(w, 0)
    ELSE Result([w EXCEPT !.diskBlocks = 0], 0)

\* sfs_mount(diskName) of the image file, which mmap maps at base.
sfs_mount(w, base) ==
    IF w.diskBlocks # 0 THEN Result(w, -EBUSY)
    ELSE IF w.disk.n_blocks * SFS_BLOCK_SIZE > SFS_MAX_DISK_SIZE
    THEN Result(w, -EFBIG)
    ELSE IF (w.disk.n_blocks * SFS_BLOCK_SIZE) % PageSize # 0
    THEN Result(w, -EINVAL)
    ELSE IF w.disk.magic # SFS_DISK_MAGIC THEN Result(w, -EINVAL)
    ELSE Result([w EXCEPT !.diskBlocks = base], 0)

(***************************************************************************)
(* The consistency checker, sfs-fsck.c.  It reads an image d whose file is *)
(* image_size bytes long.  The bytemap is a function on 0 .. n_blocks.     *)
(***************************************************************************)
B_end_of_disk == 0
B_unvisited == 1
B_corrupt == 2
B_super == 3
B_free == 4
B_rootdir == 5
B_file0 == 6

\* The type tag check_blocklist expects on a list; <<>> stands for abort().
expectedBlockType(list_type) ==
    IF list_type = B_free THEN SFS_BLOCK_TYPE_FREE
    ELSE IF list_type = B_rootdir THEN SFS_BLOCK_TYPE_DIR
    ELSE IF list_type >= B_file0 THEN SFS_BLOCK_TYPE_FILE
    ELSE <<>>

\* The while loop of check_blocklist.  counted says whether the loop ran to
\* its end, so that *n_blocks_out was set.
RECURSIVE blocklistLoop(_, _, _, _, _, _, _)
blocklistLoop(d, bytemap, list_type, cur_id, prev_id, n_blocks, status) ==
    IF cur_id = 0
    THEN [status |-> status, bytemap |-> bytemap, n_blocks |-> n_blocks,
          counted |-> TRUE]
    ELSE IF cur_id > d.n_blocks
    THEN [status |-> 1, bytemap |-> bytemap, n_blocks |-> n_blocks,
          counted |-> FALSE]
    ELSE IF bytemap[cur_id] = list_type
    THEN [status |-> 1, bytemap |-> bytemap, n_blocks |-> n_blocks,
          counted |-> FALSE]
    ELSE IF bytemap[cur_id] # B_unvisited
    THEN [status |-> 1, bytemap |-> bytemap, n_blocks |-> n_blocks,
          counted |-> FALSE]
    ELSE
    LET cur_blk == d.blk[cur_id]
        badType == cur_blk.type # expectedBlockType(list_type)
        bytemap1 == [bytemap EXCEPT ![cur_id] =
                        IF badType THEN B_corrupt ELSE list_type]
        badPrev == cur_blk.prev_block # prev_id
        status1 == IF badType \/ badPrev THEN 1 ELSE status
    IN  blocklistLoop(d, bytemap1, list_type, cur_blk.next_block, cur_id,
                      n_blocks + 1, status1)

check_blocklist(d, bytemap, first_id, list_type) ==
    blocklistLoop(d, bytemap, list_type, first_id, 0, 0, 0)

\* check_superblock: status -1 is fatal, main returns at once.
check_superblock(d, image_size) ==
    IF d.magic # SFS_DISK_MAGIC THEN [status |-> -1]
    ELSE IF d.n_blocks * SFS_BLOCK_SIZE # image_size THEN [status |-> -1]
    ELSE
    LET bytemap0 == [i \in 0 .. d.n_blocks |->
                        IF i = 0 THEN B_super
                        ELSE IF i = d.n_blocks THEN B_end_of_disk
                        ELSE B_unvisited]
        f == check_blocklist(d, bytemap0, d.freelist, B_free)
        r == check_blocklist(d, f.bytemap, d.next_rootdir, B_rootdir)
    IN  IF f.status # 0 THEN [status |-> -1]
        ELSE IF r.status # 0 THEN [status |-> -1]
        ELSE [status |-> 0, bytemap |-> r.bytemap]

\* The name checks of check_directory_entries, byte j of name onwards.
RECURSIVE nameLoop(_, _, _, _)
nameLoop(name, j, saw_nonnul, saw_nul) ==
    IF j > SFS_FILE_NAME_SIZE_LIMIT
    THEN [name_err |-> 0, saw_nonnul |-> saw_nonnul, saw_nul |-> saw_nul]
    ELSE IF name[j] # 0
         THEN IF saw_nul = 1
              THEN [name_err |-> 1, saw_nonnul |-> saw_nonnul, saw_nul |-> saw_nul]
              ELSE nameLoop(name, j + 1, 1, saw_nul)
         ELSE nameLoop(name, j + 1, saw_nonnul, 1)

\* A faulty nameError: every name is accepted.
nameError_AcceptsAll(name) == 0

nameError(name) ==
    LET r == nameLoop(name, 1, 0, 0)
    IN  IF r.name_err = 1 \/ r.saw_nonnul = 0 \/ r.saw_nul = 0 THEN 1 ELSE 0

\* status | v for the statuses 0 and 1
statusOr(a, b) == IF a # 0 \/ b # 0 THEN 1 ELSE 0

\* The loop of check_directory_entries over the entries i .. 14 of files.
RECURSIVE directoryLoop(_, _, _, _, _, _)
directoryLoop(d, files, bytemap, file_tag, i, status) ==
    IF i >= DIR_ENTRIES_PER_BLOCK
    THEN [status |-> status, bytemap |-> bytemap, file_tag |-> file_tag]
    ELSE IF files[i].first_block = 0
    THEN directoryLoop(d, files, bytemap, file_tag, i + 1, status)
    ELSE
    LET name_err == nameError(files[i].name)
        l == check_blocklist(d, bytemap, files[i].first_block, file_tag)
        nblocks == IF l.counted THEN l.n_blocks ELSE 0
        \* uint32_t arithmetic
        exp_nblocks == IF files[i].size # 0
                       THEN ((files[i].size + BLOCK_DATA_SIZE - 1)
                                % (UINT32_MAX + 1)) \div BLOCK_DATA_SIZE
                       ELSE 1
        size_err == IF l.status = 0 /\ exp_nblocks # nblocks THEN 1 ELSE 0
        \* file_tag is an unsigned char
        file_tag1 == (file_tag + 1) % 256
        tag_err == IF file_tag1 = 0 THEN 1 ELSE 0
        status1 == statusOr(statusOr(status, name_err),
                            statusOr(l.status, statusOr(size_err, tag_err)))
    IN  directoryLoop(d, files, l.bytemap, file_tag1, i + 1, status1)

check_directory_entries(d, files, bytemap, file_tag) ==
    directoryLoop(d, files, bytemap, file_tag, 0, 0)

\* A little-endian uint32_t out of four bytes of a payload.
le32(data, at) ==
    data[at] + 256 * data[at + 1] + 65536 * data[at + 2]
        + 16777216 * data[at + 3]

\* ((sfs_block_dir_t *)dh)->files of block b: entry i lies at byte
\* 32 * (i + 1) of the block, that is at byte 32 * (i + 1) - 12 of its payload.
dirBlockFiles(d, b) ==
    [i \in 0 .. DIR_ENTRIES_PER_BLOCK - 1 |->
        LET at == DIR_ENTRY_SIZE * (i + 1) - BLOCK_HDR_SIZE
        IN  [first_block |-> le32(d.blk[b].data, at),
             size |-> le32(d.blk[b].data, at + 4),
             name |-> [j \in 1 .. SFS_FILE_NAME_SIZE_LIMIT |->
                          d.blk[b].data[at + 8 + (j - 1)]]]]

\* The loop of check_root_directory over the directory chain from block b.
RECURSIVE rootdirLoop(_, _, _, _, _)
rootdirLoop(d, bytemap, file_tag, b, status) ==
    IF b = 0 THEN [status |-> status, bytemap |-> bytemap]
    ELSE LET r == check_directory_entries(d, dirBlockFiles(d, b), bytemap,
                                          file_tag)
         IN  rootdirLoop(d, r.bytemap, r.file_tag, d.blk[b].next_block,
                         statusOr(status, r.status))

check_root_directory(d, bytemap) ==
    LET r == check_directory_entries(d, d.files, bytemap, B_file0)
    IN  rootdirLoop(d, r.bytemap, r.file_tag, d.next_rootdir, r.status)

\* check_for_lost_blocks: strchr walks the bytemap from byte i up to its
\* first NUL.
RECURSIVE lostLoop(_, _, _)
lostLoop(n, bytemap, i) ==
    IF i > n \/ bytemap[i] = B_end_of_disk THEN 0
    ELSE IF bytemap[i] = B_unvisited THEN 1
    ELSE lostLoop(n, bytemap, i + 1)

\* A faulty check_for_lost_blocks: the byte map is never scanned.
check_for_lost_blocks_Skipped(d, bytemap) == 0

check_for_lost_blocks(d, bytemap) == lostLoop(d.n_blocks, bytemap, 0)

\* main of sfs-fsck: the exit status for the image d of image_size bytes.
fsck(d, image_size) ==
    LET s == check_superblock(d, image_size)
    IN  IF s.status # 0 THEN 1
        ELSE LET r == check_root_directory(d, s.bytemap)
             IN  statusOr(r.status, check_for_lost_blocks(d, r.bytemap))

(***************************************************************************)
(* The state machine: one caller issuing API calls on one image.           *)
(***************************************************************************)
VARIABLES
    disk,               \* the image file
    diskBlocks,         \* the mapping of the image, 0 when none is active
    openFileTable,      \* the v-node table
    openFileDescTable,  \* the descriptor table
    cookie,             \* the caller's sfs_list cookie
    crashed,            \* the process died inside an API call
    last,               \* the last API call and what it returned
    written,            \* per directory entry, the bytes written to the file
    nOps                \* the number of API calls made since Init

vars == <<disk, diskBlocks, openFileTable, openFileDescTable, cookie,
          crashed, last, written, nOps>>

World == [disk |-> disk, diskBlocks |-> diskBlocks,
          openFileTable |-> openFileTable,
          openFileDescTable |-> openFileDescTable]

OpenFds == {fd \in 0 .. OPEN_FILE_LIMIT - 1 : openFileDescTable[fd] # NULL}

\* A fresh process after sfs_format(name, DiskBlocks * 512).
Formatted ==
    [disk |-> sfs_format(0, DiskBlocks * SFS_BLOCK_SIZE).disk,
     diskBlocks |-> 1,
     openFileTable |-> EmptyOpenFileTable,
     openFileDescTable |-> EmptyOpenFileDescTable]

\* The buffer of the calls of Stored, unlike the buffers of later calls.
StoredSeed == 7

\* The same process after it went on to store BLOCK_DATA_SIZE + 200 bytes:
\* fd = sfs_open("a"); sfs_write(fd, buf, BLOCK_DATA_SIZE + 200); sfs_close(fd).
Stored ==
    LET o == sfs_open(Formatted, NameA, 0)
        wr == sfs_write(o.w, o.ret, StoredSeed, BLOCK_DATA_SIZE + 200, TRUE)
    IN  sfs_close(wr.w, o.ret, TRUE).w

\* The same process after it reopened the file and read all of it:
\* fd = sfs_open("a"); sfs_read(fd, buf, BLOCK_DATA_SIZE + 200).
Reopened == sfs_open(Stored, NameA, 0)

Positioned ==
    sfs_read(Reopened.w, Reopened.ret, BLOCK_DATA_SIZE + 200, TRUE).w

\* n successful calls of sfs_open(fileName), one after the other.
RECURSIVE openTimes(_, _, _)
openTimes(w, fileName, n) ==
    IF n = 0 THEN w
    ELSE \* v is bound to the world after n - 1 calls, computed once
         CHOOSE w1 \in {sfs_open(v, fileName, 0).w :
                           v \in {openTimes(w, fileName, n - 1)}} : TRUE

\* A fresh volume on which file "a" was opened OPEN_FILE_LIMIT times, in two
\* halves: every slot of the descriptor table is in use.
HalfDescriptorsOpen == openTimes(Formatted, NameA, OPEN_FILE_LIMIT \div 2)

AllDescriptorsOpen ==
    openTimes(HalfDescriptorsOpen, NameA,
              OPEN_FILE_LIMIT - OPEN_FILE_LIMIT \div 2)

\* A freshly formatted, active volume of n_blocks blocks.
FormattedWith(n_blocks) ==
    [disk |-> sfs_format(0, n_blocks * SFS_BLOCK_SIZE).disk,
     diskBlocks |-> 1,
     openFileTable |-> EmptyOpenFileTable,
     openFileDescTable |-> EmptyOpenFileDescTable]

\* The k-th of a series of distinct one-letter names: "a", "b", ...
NameNo(k) == <<96 + k>>

\* sfs_open of the first n names of the series, one after the other.
RECURSIVE openNames(_, _)
openNames(w, n) ==
    IF n = 0 THEN w
    ELSE \* v is bound to the world after n - 1 calls, computed once
         CHOOSE w1 \in {sfs_open(v, NameNo(n), 0).w :
                           v \in {openNames(w, n - 1)}} : TRUE

\* A volume with one block more than directory slots, after a file was
\* opened in every slot: the directory is full and one block is still free.
FullDirectory == openNames(FormattedWith(FILE_COUNT_LIMIT + 2), FILE_COUNT_LIMIT)

\* An 8-block volume after seven distinct names were opened.
SevenFiles == openNames(FormattedWith(8), 7)

\* The bytes of file "a" in Stored and Positioned.
StoredBytes == [k \in 1 .. BLOCK_DATA_SIZE + 200 |-> BufByte(StoredSeed, k - 1)]

\* The caller starts right after sfs_format, after the calls of Stored or
\* after the calls of Positioned; nOps counts the calls made from there on.
Init ==
    /\ \E start \in {"format", "close", "read"} :
        LET w == IF start = "format" THEN Formatted
                 ELSE IF start = "close" THEN Stored ELSE Positioned
        IN  /\ disk = w.disk
            /\ diskBlocks = w.diskBlocks
            /\ openFileTable = w.openFileTable
            /\ openFileDescTable = w.openFileDescTable
            /\ last = [op |-> start,
                       ret |-> IF start = "read" THEN BLOCK_DATA_SIZE + 200
                               ELSE 0]
            /\ written = [i \in 0 .. FILE_COUNT_LIMIT - 1 |->
                            IF start # "format" /\ i = 0 THEN StoredBytes
                            ELSE <<>>]
    /\ cookie = 0
    /\ crashed = FALSE
    /\ nOps = 0

\* The engine's variables after a call with result r.
Apply(r) ==
    /\ disk' = r.w.disk
    /\ diskBlocks' = r.w.diskBlocks
    /\ openFileTable' = r.w.openFileTable
    /\ openFileDescTable' = r.w.openFileDescTable
    /\ crashed' = r.crash
    /\ nOps' = nOps + 1

\* written follows the directory: the byte map of an entry that is not live
\* after the call is empty.
WrittenAfter(d, wr) ==
    [i \in 0 .. FILE_COUNT_LIMIT - 1 |->
        IF d.files[i].first_block = 0 THEN <<>> ELSE wr[i]]

\* The byte map after len bytes of the buffer with this seed went to
\* offsets pos .. pos+len-1.
Overlay(bytes, pos, seed, len) ==
    [i \in 1 .. (IF pos + len > Len(bytes) THEN pos + len ELSE Len(bytes)) |->
        IF pos < i /\ i <= pos + len THEN BufByte(seed, i - pos - 1)
        ELSE bytes[i]]

Open(name, nomem) ==
    /\ ~crashed /\ nOps < MaxOps
    /\ Cardinality(OpenFds) < MaxOpen
    /\ LET r == sfs_open(World, name, nomem)
       IN  /\ Apply(r)
           /\ last' = [op |-> "open", ret |-> r.ret]
           /\ written' = WrittenAfter(r.w.disk, written)
    /\ UNCHANGED cookie

Close(fd, oob) ==
    /\ ~crashed /\ nOps < MaxOps
    /\ LET r == sfs_close(World, fd, oob)
       IN  /\ Apply(r)
           /\ last' = [op |-> "close", ret |-> r.ret]
    /\ UNCHANGED <<cookie, written>>

Read(fd, len, oob) ==
    /\ ~crashed /\ nOps < MaxOps
    /\ LET r == sfs_read(World, fd, len, oob)
       IN  /\ Apply(r)
           /\ last' = [op |-> "read", ret |-> r.ret]
    /\ UNCHANGED <<cookie, written>>

Write(fd, seed, len, oob) ==
    /\ ~crashed /\ nOps < MaxOps
    /\ LET r == sfs_write(World, fd, seed, len, oob)
       IN  /\ Apply(r)
           /\ last' = [op |-> "write", ret |-> r.ret]
           /\ written' =
                IF fd \in OpenFds /\ ~r.crash /\ r.ret >= 0
                THEN [written EXCEPT
                        ![openFileDescTable[fd][1].fileEntry] =
                            Overlay(@, openFileDescTable[fd][1].currPos, seed, len)]
                ELSE written
    /\ UNCHANGED cookie

Remove(name) ==
    /\ ~crashed /\ nOps < MaxOps
    /\ LET r == sfs_remove(World, name)
       IN  /\ Apply(r)
           /\ last' = [op |-> "remove", ret |-> r.ret]
           /\ written' = WrittenAfter(r.w.disk, written)
    /\ UNCHANGED cookie

List(filename_space) ==
    /\ ~crashed /\ nOps < MaxOps
    /\ LET r == sfs_list(World, cookie, filename_space)
       IN  /\ cookie' = r.cookie
           /\ nOps' = nOps + 1
           /\ last' = [op |-> "list", ret |-> r.ret]
    /\ UNCHANGED <<disk, diskBlocks, openFileTable, openFileDescTable,
                   crashed, written>>

Unmount ==
    /\ ~crashed /\ nOps < MaxOps
    /\ LET r == sfs_unmount(World)
       IN  /\ Apply(r)
           /\ last' = [op |-> "unmount", ret |-> r.ret]
    /\ UNCHANGED <<cookie, written>>

Mount(base) ==
    /\ ~crashed /\ nOps < MaxOps
    /\ LET r == sfs_mount(World, base)
       IN  /\ Apply(r)
           /\ last' = [op |-> "mount", ret |-> r.ret]
    /\ UNCHANGED <<cookie, written>>

\* sfs_format(diskName, diskSize) on the same image file, mapped at base.
\* When the assertion on n_blocks fails the process is dead: the mapping
\* was assigned, and what is left in the image file is not followed.
Format(base, diskSize) ==
    /\ ~crashed /\ nOps < MaxOps
    /\ LET r == sfs_format(diskBlocks, diskSize)
       IN  /\ last' = [op |-> "format", ret |-> r.ret]
           /\ crashed' = ("crash" \in DOMAIN r)
           /\ IF "crash" \in DOMAIN r
              THEN /\ diskBlocks' = base
                   /\ UNCHANGED <<disk, written>>
              ELSE IF r.ret = 0
              THEN /\ disk' = r.disk
                   /\ diskBlocks' = base
                   /\ written' = [i \in 0 .. FILE_COUNT_LIMIT - 1 |-> <<>>]
              ELSE UNCHANGED <<disk, diskBlocks, written>>
    /\ nOps' = nOps + 1
    /\ UNCHANGED <<openFileTable, openFileDescTable, cookie>>

\* What the call's other arguments range over: every value for a descriptor
\* that is open, one value for a descriptor the call rejects.
LensFor(fd) == IF fd \in OpenFds THEN Lens ELSE {BLOCK_DATA_SIZE}
SeedsFor(fd) == IF fd \in OpenFds THEN Seeds ELSE {0}
\* What the read one past the descriptor table may yield.
OobFor(fd) == IF fd = OPEN_FILE_LIMIT THEN BOOLEAN ELSE {TRUE}
\* mmap's choice of address matters only to the pointers into the old
\* mapping that v-nodes still hold.
BasesNow == IF openFileTable = EmptyOpenFileTable THEN {1} ELSE MapBases

Next ==
    \/ \E name \in Names, nomem \in 0 .. 2 : Open(name, nomem)
    \/ \E fd \in Fds : \E oob \in OobFor(fd) : Close(fd, oob)
    \/ \E fd \in Fds : \E len \in LensFor(fd), oob \in OobFor(fd) :
          Read(fd, len, oob)
    \/ \E fd \in Fds : \E seed \in SeedsFor(fd), len \in LensFor(fd),
                          oob \in OobFor(fd) : Write(fd, seed, len, oob)
    \/ \E name \in Names : Remove(name)
    \/ \E space \in {0, 1, SFS_FILE_NAME_SIZE_LIMIT} : List(space)
    \/ Unmount
    \/ \E base \in BasesNow : Mount(base)

Spec == Init /\ [][Next]_vars

\* The same calls together with sfs_format, which the library accepts at any
\* time: it rewrites the image file and activates it, whatever the tables hold.
NextWithFormat ==
    \/ \E name \in Names, nomem \in 0 .. 2 : Open(name, nomem)
    \/ \E fd \in Fds : \E oob \in OobFor(fd) : Close(fd, oob)
    \/ \E fd \in Fds : \E len \in LensFor(fd), oob \in OobFor(fd) :
          Read(fd, len, oob)
    \/ \E fd \in Fds : \E seed \in SeedsFor(fd), len \in LensFor(fd),
                          oob \in OobFor(fd) : Write(fd, seed, len, oob)
    \/ \E name \in Names : Remove(name)
    \/ \E space \in {0, 1, SFS_FILE_NAME_SIZE_LIMIT} : List(space)
    \/ Unmount
    \/ \E base \in BasesNow : Mount(base)
    \/ \E base \in BasesNow,
          diskSize \in {0, DiskBlocks * SFS_BLOCK_SIZE, SFS_MAX_DISK_SIZE} :
          Format(base, diskSize)

SpecWithFormat == Init /\ [][NextWithFormat]_vars

(***************************************************************************)
(* Properties of the image.  The lists are read off the image by following *)
(* next pointers, independently of the engine and of sfs-fsck.             *)
(***************************************************************************)
\* The blocks met from head along next pointers, giving up after fuel
\* steps or at an id that names no block; ends says the walk reached 0.
RECURSIVE listFrom(_, _, _)
listFrom(d, head, fuel) ==
    IF head = 0 THEN [ids |-> <<>>, ends |-> TRUE]
    ELSE IF fuel = 0 \/ head < 0 \/ head >= d.n_blocks
    THEN [ids |-> <<>>, ends |-> FALSE]
    ELSE LET rest == listFrom(d, d.blk[head].next_block, fuel - 1)
         IN  [ids |-> <<head>> \o rest.ids, ends |-> rest.ends]

FreeList(d) == listFrom(d, d.freelist, d.n_blocks)
ChainOf(d, i) == listFrom(d, d.files[i].first_block, d.n_blocks)
LiveEntries(d) == {i \in 0 .. FILE_COUNT_LIMIT - 1 : d.files[i].first_block # 0}
Occurrences(seq, b) == Cardinality({k \in DOMAIN seq : seq[k] = b})

\* The lengths of the chains of the live entries i .. 14, added up.
RECURSIVE chainBlocksFrom(_, _)
chainBlocksFrom(d, i) ==
    IF i >= FILE_COUNT_LIMIT THEN 0
    ELSE (IF d.files[i].first_block # 0 THEN Len(ChainOf(d, i).ids) ELSE 0)
            + chainBlocksFrom(d, i + 1)

\* How often block b occurs on the chains of the live entries i .. 14.
RECURSIVE chainOccurrencesFrom(_, _, _)
chainOccurrencesFrom(d, i, b) ==
    IF i >= FILE_COUNT_LIMIT THEN 0
    ELSE (IF d.files[i].first_block # 0
          THEN Occurrences(ChainOf(d, i).ids, b) ELSE 0)
            + chainOccurrencesFrom(d, i + 1, b)

\* The links of one list agree in both directions.
DoublyLinked(d, l) ==
    /\ l.ends
    /\ \A k \in DOMAIN l.ids :
          d.blk[l.ids[k]].prev_block = (IF k = 1 THEN 0 ELSE l.ids[k - 1])

\* ceil(max(size, 1) / BLOCK_DATA_SIZE)
BlocksFor(size) ==
    ((IF size > 1 THEN size ELSE 1) + BLOCK_DATA_SIZE - 1) \div BLOCK_DATA_SIZE

\* C1: in every state the calls of the API reach, each block 1 .. n_blocks-1
\* is on exactly one list (the free list or the chain of one live directory
\* entry) exactly once, every list ends (no cycle), and the lengths of the
\* free list and of all chains add up to n_blocks - 1.
C1_BlockPartition ==
    /\ FreeList(disk).ends
    /\ \A i \in LiveEntries(disk) : ChainOf(disk, i).ends
    /\ \A b \in 1 .. disk.n_blocks - 1 :
          Occurrences(FreeList(disk).ids, b)
              + chainOccurrencesFrom(disk, 0, b) = 1
    /\ Len(FreeList(disk).ids) + chainBlocksFrom(disk, 0) = disk.n_blocks - 1

\* A remove put a chain back on the free list while another file keeps a
\* chain of two blocks.
C1_Witness ==
    /\ last = [op |-> "remove", ret |-> 0]
    /\ disk.freelist # 0
    /\ \E i \in LiveEntries(disk) : Len(ChainOf(disk, i).ids) = 2

\* C2: on every list (the free list and each file chain) the first block
\* has prev_block = 0, the last has next_block = 0, and whenever block b has
\* next_block = c # 0, block c has prev_block = b; this is to hold for the
\* free list also after sfs_remove spliced a chain in front of it.
C2_DoublyLinkedLists ==
    /\ DoublyLinked(disk, FreeList(disk))
    /\ \A i \in LiveEntries(disk) : DoublyLinked(disk, ChainOf(disk, i))

DescriptorsOf(i) ==
    {fd \in 0 .. OPEN_FILE_LIMIT - 1 :
        openFileDescTable[fd] # NULL /\ openFileDescTable[fd][1].fileEntry = i}

\* C5: the reference count of a v-node equals the number of descriptors
\* that refer to it, and a v-node slot is in use exactly if at least one
\* descriptor refers to it.
C5_RefCountMatchesDescriptors ==
    \A i \in 0 .. FILE_COUNT_LIMIT - 1 :
        /\ openFileTable[i] # NULL <=> DescriptorsOf(i) # {}
        /\ openFileTable[i] # NULL =>
              openFileTable[i][1].refCount = Cardinality(DescriptorsOf(i))

\* One of two descriptors of a file was closed: the v-node stays, with
\* count one.
C5_Witness ==
    /\ last = [op |-> "close", ret |-> 0]
    /\ nOps >= 3
    /\ \E i \in 0 .. FILE_COUNT_LIMIT - 1 :
          /\ openFileTable[i] # NULL
          /\ openFileTable[i][1].refCount = 1
          /\ Cardinality(DescriptorsOf(i)) = 1

\* C6: sfs-fsck exits with status 0 on the image in every state the calls
\* of the API reach from a formatted image, whatever names sfs_open
\* accepted and whatever sfs_remove put back on a non-empty free list.
C6_FsckAcceptsEveryImage == fsck(disk, DiskBlocks * SFS_BLOCK_SIZE) = 0

\* C7: a read through any descriptor returns exactly the bytes most
\* recently written at the offsets it covers: the bytes read at position p
\* are written[p+1 .. p+ret] of the file, whichever descriptors wrote them,
\* wherever other descriptors stand, and across unmount and mount.
C7_ReadReturnsWritten ==
    ~crashed =>
        \A fd \in OpenFds : \A len \in Lens :
            LET t == openFileDescTable[fd][1]
                r == sfs_read(World, fd, len, TRUE)
            IN  ~r.crash =>
                    /\ r.ret >= 0
                    /\ t.currPos + r.ret <= Len(written[t.fileEntry])
                    /\ r.out = [k \in 1 .. r.ret |->
                                    written[t.fileEntry][t.currPos + k]]

\* A read returned the 200 bytes behind a block that had just been
\* overwritten: bytes of the older write, from the file's second block.
C7_Witness ==
    /\ last = [op |-> "read", ret |-> 200]
    /\ \E i \in LiveEntries(disk) :
          /\ DescriptorsOf(i) # {}
          /\ Len(written[i]) = BLOCK_DATA_SIZE + 200
          /\ written[i][1] = BufByte(0, 0)
          /\ written[i][BLOCK_DATA_SIZE + 200]
                = BufByte(StoredSeed, BLOCK_DATA_SIZE + 199)

\* The live directory entries called name.
EntriesNamed(name) ==
    {i \in LiveEntries(disk) : strcmpEq(disk.files[i].name, name)}

RemovedCleanly(i, r) ==
    LET before == ChainOf(disk, i).ids
        d1 == r.w.disk
    IN  /\ ~r.crash /\ r.ret = 0
        /\ d1.files[i].first_block = 0
        /\ \A k \in DOMAIN before :
              /\ d1.blk[before[k]].type = SFS_BLOCK_TYPE_FREE
              /\ Occurrences(FreeList(d1).ids, before[k]) = 1
        /\ Len(FreeList(d1).ids) = Len(FreeList(disk).ids) + Len(before)
        /\ \A j \in LiveEntries(disk) \ {i} :
              /\ d1.files[j] = disk.files[j]
              /\ ChainOf(d1, j) = ChainOf(disk, j)
              /\ \A k \in DOMAIN ChainOf(disk, j).ids :
                    d1.blk[ChainOf(disk, j).ids[k]]
                        = disk.blk[ChainOf(disk, j).ids[k]]
        /\ r.w.openFileTable = openFileTable
        /\ r.w.openFileDescTable = openFileDescTable
        /\ r.w.diskBlocks = diskBlocks

\* C9: on a mounted volume, sfs_remove of a name of valid length that names
\* a live entry with no descriptor open returns 0, leaves the entry unused,
\* its blocks FREE and on the free list, which grows by the length of the
\* chain, and leaves the other files as they were; when no live entry has
\* the name it returns -ENOENT and changes nothing.
C9_RemoveFreesTheFile ==
    (~crashed /\ diskBlocks # 0) =>
        \A name \in Names :
            Len(name) + 1 <= SFS_FILE_NAME_SIZE_LIMIT =>
                LET r == sfs_remove(World, name)
                IN  /\ EntriesNamed(name) = {} =>
                          r = Result(World, -ENOENT)
                    /\ \A i \in EntriesNamed(name) :
                          DescriptorsOf(i) = {} => RemovedCleanly(i, r)

\* A remove succeeded next to a file that stays, and the free list now
\* holds the freed block behind which the old free list follows.
C9_Witness ==
    /\ last = [op |-> "remove", ret |-> 0]
    /\ LiveEntries(disk) # {}
    /\ Len(FreeList(disk).ids) >= 2

\* C10: sfs_write is all-or-nothing: it returns len, with the position
\* advanced by len, or a negative error code; when it returns -ENOSPC,
\* -EFBIG or -EBADF, the image (sizes, chains, free list) and the
\* descriptors (positions) are exactly as before the call.
C10_WriteAllOrNothing ==
    ~crashed =>
        \A fd \in Fds : \A len \in LensFor(fd), seed \in SeedsFor(fd),
                            oob \in OobFor(fd) :
            LET r == sfs_write(World, fd, seed, len, oob)
            IN  ~r.crash =>
                    /\ r.ret = len \/ r.ret \in {-ENOSPC, -EFBIG, -EBADF}
                    /\ r.ret < 0 => r.w = World
                    /\ r.ret >= 0 =>
                          /\ fd \in OpenFds
                          /\ r.w.openFileDescTable[fd][1].currPos
                                = openFileDescTable[fd][1].currPos + len

\* A write that did not fit was refused although free blocks were there.
C10_Witness ==
    /\ last = [op |-> "write", ret |-> -ENOSPC]
    /\ disk.freelist # 0
    /\ OpenFds # {}

\* The payloads of the blocks of a list, in order.
PayloadOf(d, l) == [k \in DOMAIN l.ids |-> d.blk[l.ids[k]].data]

\* C11: a successful sfs_write of len bytes from position pos on a file of
\* size s returns len, moves the descriptor to pos + len, makes the size
\* max(s, pos + len), takes exactly
\* max(0, ceil(max(pos+len,1)/500) - ceil(max(s,1)/500)) blocks off the
\* front of the free list, and leaves every other file's entry, chain and
\* payload and every other descriptor as they were.
C11_WriteEffects ==
    ~crashed =>
        \A fd \in OpenFds : \A len \in Lens, seed \in Seeds :
            LET t == openFileDescTable[fd][1]
                e == t.fileEntry
                s == disk.files[e].size
                end == t.currPos + len
                r == sfs_write(World, fd, seed, len, TRUE)
                d1 == r.w.disk
                taken == IF BlocksFor(end) > BlocksFor(s)
                         THEN BlocksFor(end) - BlocksFor(s) ELSE 0
                free0 == FreeList(disk).ids
            IN  (~r.crash /\ r.ret >= 0) =>
                    /\ r.ret = len
                    /\ r.w.openFileDescTable[fd][1].currPos = end
                    /\ d1.files[e].size = (IF s > end THEN s ELSE end)
                    /\ taken <= Len(free0)
                    /\ FreeList(d1).ids = SubSeq(free0, taken + 1, Len(free0))
                    /\ \A j \in LiveEntries(disk) \ {e} :
                          /\ d1.files[j] = disk.files[j]
                          /\ ChainOf(d1, j) = ChainOf(disk, j)
                          /\ PayloadOf(d1, ChainOf(d1, j))
                                = PayloadOf(disk, ChainOf(disk, j))
                    /\ \A g \in OpenFds \ {fd} :
                          r.w.openFileDescTable[g] = openFileDescTable[g]

\* A write grew one file by a block while a second file existed.
C11_Witness ==
    /\ last.op = "write" /\ last.ret = BLOCK_DATA_SIZE + 200
    /\ Cardinality(LiveEntries(disk)) = 2
    /\ \E i \in LiveEntries(disk) :
          /\ disk.files[i].size = BLOCK_DATA_SIZE + 200
          /\ written[i][1] = BufByte(0, 0)

\* C12: sfs_read of len bytes through an open descriptor at position pos of
\* a file of size s returns min(s - pos, len) and advances the position by
\* that amount; at pos = s it returns 0 and the descriptor stays as it is.
\* The image is not changed.  The read completes whenever the descriptor's
\* file is live in the active image, pos <= s and curr_block is the block
\* of the file's chain that holds pos.
C12_ReadReturnsMin ==
    ~crashed =>
        \A fd \in OpenFds : \A len \in Lens :
            LET t == openFileDescTable[fd][1]
                e == t.fileEntry
                s == disk.files[e].size
                pos == t.currPos
                n == IF s - pos < len THEN s - pos ELSE len
                r == sfs_read(World, fd, len, TRUE)
            IN  /\ (mapped(World, openFileTable[e][1].diskFile)
                        /\ e \in LiveEntries(disk) /\ pos <= s
                        /\ BlocksFor(pos) <= Len(ChainOf(disk, e).ids)
                        /\ ChainOf(disk, e).ids[BlocksFor(pos)] = t.currBlock)
                      => ~r.crash
                /\ ~r.crash =>
                      /\ r.ret = n
                      /\ Len(r.out) = n
                      /\ r.w.openFileDescTable[fd][1].currPos = pos + n
                      /\ r.w.disk = disk
                      /\ pos = s => (r.ret = 0 /\ r.w = World)

\* A read at the end of a file whose size is a multiple of the payload
\* size returned 0.
C12_Witness ==
    /\ last = [op |-> "read", ret |-> 0]
    /\ \E fd \in OpenFds :
          LET t == openFileDescTable[fd][1]
          IN  /\ t.fileEntry \in LiveEntries(disk)
              /\ t.currPos = disk.files[t.fileEntry].size
              /\ t.currPos = BLOCK_DATA_SIZE

\* C13: in every state the calls of the API reach, sfs_unmount followed
\* by sfs_format or sfs_mount with descriptors still open included, every
\* open descriptor has curr_pos <= the size of the directory entry it
\* refers to, so that the assertions currPos <= fileSize of sfs_read and
\* sfs_write cannot fail.
C13_PositionWithinSize ==
    \A fd \in OpenFds :
        LET t == openFileDescTable[fd][1]
        IN  t.currPos <= disk.files[openFileTable[t.fileEntry][1].diskFile.idx].size

\* C14: allocateBlocks(n, tag) is all-or-nothing.  When it returns 0 (n = 0,
\* an empty free list, fewer than n free blocks) the image is unchanged.
\* When it returns id # 0, the chain from id is the first n blocks of the
\* old free list in order, its head has prev = 0, its tail next = 0, all its
\* blocks carry tag, and the new free list is the rest of the old one in
\* the same order, its head (if any) with prev = 0.
C14_AllocateAllOrNothing ==
    \A n \in 0 .. DiskBlocks : \A tag \in {SFS_BLOCK_TYPE_FILE, SFS_BLOCK_TYPE_DIR} :
        LET a == allocateBlocks(disk, n, tag)
            free0 == FreeList(disk).ids
            got == listFrom(a.disk, a.id, a.disk.n_blocks)
        IN  /\ ~a.abort
            /\ a.id = 0 <=> (n = 0 \/ Len(free0) < n)
            /\ a.id = 0 => a.disk = disk
            /\ a.id # 0 =>
                  /\ got.ends
                  /\ got.ids = SubSeq(free0, 1, n)
                  /\ a.disk.blk[a.id].prev_block = 0
                  /\ \A k \in DOMAIN got.ids :
                        a.disk.blk[got.ids[k]].type = tag
                  /\ FreeList(a.disk).ends
                  /\ FreeList(a.disk).ids = SubSeq(free0, n + 1, Len(free0))
                  /\ a.disk.freelist # 0 =>
                        a.disk.blk[a.disk.freelist].prev_block = 0
                  /\ a.disk.files = disk.files

\* The image holds a free list of two blocks or more behind a live file: an
\* allocation of two blocks succeeds on it and one of three or more fails.
C14_Witness ==
    /\ Len(FreeList(disk).ids) >= 2
    /\ LiveEntries(disk) # {}
    /\ allocateBlocks(disk, 2, SFS_BLOCK_TYPE_FILE).id # 0
    /\ allocateBlocks(disk, DiskBlocks, SFS_BLOCK_TYPE_FILE).id = 0
    /\ last.op = "open" /\ last.ret >= 0

\* The names given to sfs_open and sfs_remove that are short enough.
ValidNames == {name \in Names : Len(name) + 1 <= SFS_FILE_NAME_SIZE_LIMIT}

\* The lowest unused directory slot (only used where there is one).
LowestUnused(d) ==
    CHOOSE i \in 0 .. FILE_COUNT_LIMIT - 1 :
        /\ d.files[i].first_block = 0
        /\ \A j \in 0 .. i - 1 : d.files[j].first_block # 0

\* C15: on a mounted volume with an unused directory slot, a free block and
\* a free descriptor, sfs_open of a name that matches no live entry creates
\* the file in the lowest unused slot: size 0, first_block the old head of
\* the free list, now a FILE chain of one block with prev = 0 and next = 0,
\* the name copied and NUL-padded to 24 bytes, the free list one block
\* shorter; it returns a descriptor at position 0, and the v-node's
\* ref_count is 1.
C15_OpenCreates ==
    (~crashed /\ diskBlocks # 0) =>
        \A name \in ValidNames :
            (/\ EntriesNamed(name) = {}
             /\ LiveEntries(disk) # 0 .. FILE_COUNT_LIMIT - 1
             /\ disk.freelist # 0
             /\ Cardinality(OpenFds) < OPEN_FILE_LIMIT) =>
                LET r == sfs_open(World, name, 0)
                    i == LowestUnused(disk)
                    head == disk.freelist
                    d1 == r.w.disk
                    free0 == FreeList(disk).ids
                IN  /\ ~r.crash
                    /\ r.ret \in 0 .. OPEN_FILE_LIMIT - 1
                    /\ LiveEntries(d1) = LiveEntries(disk) \cup {i}
                    /\ d1.files[i].size = 0
                    /\ d1.files[i].first_block = head
                    /\ d1.files[i].name
                          = name \o Rep(0, SFS_FILE_NAME_SIZE_LIMIT - Len(name))
                    /\ d1.blk[head].type = SFS_BLOCK_TYPE_FILE
                    /\ d1.blk[head].prev_block = 0
                    /\ d1.blk[head].next_block = 0
                    /\ FreeList(d1).ids = SubSeq(free0, 2, Len(free0))
                    /\ r.w.openFileDescTable[r.ret] # NULL
                    /\ r.w.openFileDescTable[r.ret][1].currPos = 0
                    /\ r.w.openFileDescTable[r.ret][1].fileEntry = i
                    /\ r.w.openFileTable[i] # NULL
                    /\ r.w.openFileTable[i][1].refCount = 1

\* C16: sfs_open has no partial success: whenever it returns a negative
\* error (-ENAMETOOLONG, -ENOMEDIUM, -ENOSPC, -EMFILE, -ENOMEM), the
\* directory, every block, the free list, the descriptor table and the
\* v-node table are exactly as before the call; in particular a new name
\* opened while all 32 descriptors are in use gets -EMFILE and no directory
\* entry and no block.
C16_OpenFailureChangesNothing ==
    /\ ~crashed =>
          \A name \in Names, nomem \in 0 .. 2 :
              LET r == sfs_open(World, name, nomem)
              IN  (~r.crash /\ r.ret < 0) => r.w = World
    /\ LET r == sfs_open(AllDescriptorsOpen, NameEmpty, 0)
       IN  /\ r.ret = -EMFILE
           /\ r.w = AllDescriptorsOpen

\* C17: sfs_open of a valid-length name that matches no live entry returns
\* -ENOSPC (and changes nothing) when no directory slot is unused or the free
\* list is empty; so the number of live files never exceeds
\* min(15, n_blocks - 1), a full directory refuses a new name although a
\* block is free, and on an 8-block volume seven distinct names can be
\* opened and the eighth gets -ENOSPC.
C17_OpenWithoutRoom ==
    /\ (~crashed /\ diskBlocks # 0) =>
          \A name \in ValidNames, nomem \in 0 .. 2 :
              (/\ EntriesNamed(name) = {}
               /\ \/ LiveEntries(disk) = 0 .. FILE_COUNT_LIMIT - 1
                  \/ disk.freelist = 0) =>
                  sfs_open(World, name, nomem) = Result(World, -ENOSPC)
    /\ Cardinality(LiveEntries(disk))
          <= sizeMin(FILE_COUNT_LIMIT, disk.n_blocks - 1)
    /\ LiveEntries(FullDirectory.disk) = 0 .. FILE_COUNT_LIMIT - 1
    /\ FullDirectory.disk.freelist # 0
    /\ sfs_open(FullDirectory, NameNo(FILE_COUNT_LIMIT + 1), 0)
          = Result(FullDirectory, -ENOSPC)
    /\ Cardinality(LiveEntries(SevenFiles.disk)) = 7
    /\ sfs_open(SevenFiles, NameNo(8), 0) = Result(SevenFiles, -ENOSPC)

\* An open of a new name was just refused with -ENOSPC on an active volume
\* whose free list is empty and whose files hold every block.
C17_Witness ==
    /\ ~crashed /\ diskBlocks # 0
    /\ last = [op |-> "open", ret |-> -ENOSPC]
    /\ disk.freelist = 0
    /\ Cardinality(LiveEntries(disk)) < disk.n_blocks - 1
    /\ \E name \in ValidNames : EntriesNamed(name) = {}

\* The open descriptor slots of a world.
OpenFdsOf(w) == {fd \in 0 .. OPEN_FILE_LIMIT - 1 : w.openFileDescTable[fd] # NULL}

\* C18: descriptor allocation.  A successful sfs_open returns the lowest
\* index in 0..31 whose slot was empty, leaves every other slot as it was,
\* and initialises the descriptor with start_block = curr_block = the
\* first_block of the entry of that name and curr_pos = 0.  -EMFILE is
\* returned only when all 32 slots are in use, and always then once the call
\* gets as far as allocating a descriptor; one file can be open through all
\* 32 descriptors at once.
C18_DescriptorAllocation ==
    /\ ~crashed =>
          \A name \in Names, nomem \in 0 .. 2 :
              LET r == sfs_open(World, name, nomem)
                  fd == r.ret
              IN  ~r.crash =>
                    /\ fd = -EMFILE => OpenFds = 0 .. OPEN_FILE_LIMIT - 1
                    /\ fd >= 0 =>
                          /\ fd \in 0 .. OPEN_FILE_LIMIT - 1
                          /\ fd \notin OpenFds
                          /\ \A j \in 0 .. fd - 1 : j \in OpenFds
                          /\ OpenFdsOf(r.w) = OpenFds \cup {fd}
                          /\ \A j \in OpenFds :
                                r.w.openFileDescTable[j] = openFileDescTable[j]
                          /\ LET f == r.w.openFileDescTable[fd][1]
                                 e == r.w.disk.files[f.fileEntry]
                             IN  /\ e.first_block # 0
                                 /\ strcmpEq(e.name, name)
                                 /\ f.startBlock = e.first_block
                                 /\ f.currBlock = e.first_block
                                 /\ f.currPos = 0
    /\ OpenFdsOf(HalfDescriptorsOpen) = 0 .. OPEN_FILE_LIMIT \div 2 - 1
    /\ sfs_open(HalfDescriptorsOpen, NameA, 0).ret = OPEN_FILE_LIMIT \div 2
    /\ OpenFdsOf(AllDescriptorsOpen) = 0 .. OPEN_FILE_LIMIT - 1
    /\ \A fd \in 0 .. OPEN_FILE_LIMIT - 1 :
          AllDescriptorsOpen.openFileDescTable[fd][1].fileEntry = 0
    /\ AllDescriptorsOpen.openFileTable[0][1].refCount = OPEN_FILE_LIMIT
    /\ sfs_open(AllDescriptorsOpen, NameA, 0)
          = Result(AllDescriptorsOpen, -EMFILE)
    /\ sfs_open(AllDescriptorsOpen, NameEmpty, 0).ret = -EMFILE

\* Descriptor 0 was closed and then handed out again by sfs_open while
\* descriptor 1 was still open.
C18_Witness ==
    /\ ~crashed
    /\ last = [op |-> "open", ret |-> 0]
    /\ OpenFds = {0, 1}

\* C19: sfs_close is tolerant.  For every fd that is out of range (fd < 0 or
\* fd >= 32, 32 included) or whose slot is unused it returns with both tables
\* and the volume unchanged, whatever lies beyond the descriptor table, which
\* it never reads; for an open fd it empties exactly that slot, decrements
\* exactly that file's ref_count, and releases the v-node iff the count
\* reaches 0.
C19_CloseIsTolerant ==
    ~crashed =>
        \A fd \in Fds, oob \in BOOLEAN :
            LET r == sfs_close(World, fd, oob)
            IN  IF fd \notin OpenFds THEN r = Result(World, 0)
                ELSE
                LET e == openFileDescTable[fd][1].fileEntry
                    n == openFileTable[e][1].refCount
                IN  /\ ~r.crash
                    /\ r.w.disk = disk /\ r.w.diskBlocks = diskBlocks
                    /\ r.w.openFileDescTable
                          = [openFileDescTable EXCEPT ![fd] = NULL]
                    /\ \A i \in 0 .. FILE_COUNT_LIMIT - 1 :
                          i # e => r.w.openFileTable[i] = openFileTable[i]
                    /\ IF n = 1 THEN r.w.openFileTable[e] = NULL
                       ELSE /\ r.w.openFileTable[e] # NULL
                            /\ r.w.openFileTable[e][1]
                                  = [openFileTable[e][1] EXCEPT !.refCount = n - 1]

\* C20: sfs_read and sfs_write return -EBADF and change nothing for every fd
\* that is not an open descriptor: fd < 0, fd >= 32 (32, the table length,
\* included) and every in-range fd whose slot is empty, whatever lies beyond
\* the descriptor table, which they never read.
C20_BadDescriptorRejected ==
    ~crashed =>
        \A fd \in Fds \ OpenFds, len \in {0, BLOCK_DATA_SIZE}, oob \in BOOLEAN :
            LET rd == sfs_read(World, fd, len, oob)
                wr == sfs_write(World, fd, 0, len, oob)
            IN  /\ ~rd.crash /\ rd.ret = -EBADF /\ rd.w = World
                /\ rd.out = <<>>
                /\ wr = Result(World, -EBADF)

\* A 24-byte name field holding a NUL-terminated string that is not empty:
\* k >= 1 bytes that are not NUL, then only NULs.
WellFormedName(arr) ==
    \E k \in 1 .. SFS_FILE_NAME_SIZE_LIMIT - 1 :
        /\ \A j \in 1 .. k : arr[j] # 0
        /\ \A j \in k + 1 .. SFS_FILE_NAME_SIZE_LIMIT : arr[j] = 0

\* C21: in every reachable state the name field of every live directory
\* entry is a NUL-terminated string with at least one byte that is not NUL,
\* followed only by NULs; sfs_open refuses a name with -ENAMETOOLONG iff its
\* length with the NUL exceeds 24, and never creates an entry whose name is
\* empty.
C21_LiveNamesWellFormed ==
    /\ \A i \in LiveEntries(disk) : WellFormedName(disk.files[i].name)
    /\ ~crashed =>
          \A name \in Names \cup {NameMax} :
              LET r == sfs_open(World, name, 0)
              IN  /\ (r.ret = -ENAMETOOLONG)
                        <=> (Len(name) + 1 > SFS_FILE_NAME_SIZE_LIMIT)
                  /\ ~r.crash =>
                        \A i \in LiveEntries(r.w.disk) \ LiveEntries(disk) :
                            WellFormedName(r.w.disk.files[i].name)

\* C22: sfs_unmount returns -EBUSY whenever a descriptor is open, and then
\* the image stays active and nothing changes; it succeeds and deactivates
\* the image only when no descriptor is open, so after a successful unmount
\* the descriptor table and the v-node table are empty.
C22_UnmountRefusedWhileOpen ==
    /\ ~crashed =>
          LET r == sfs_unmount(World)
          IN  IF OpenFds # {}
              THEN r = Result(World, -EBUSY)
              ELSE /\ r.ret = 0
                   /\ r.w = [World EXCEPT !.diskBlocks = 0]
    /\ (~crashed /\ last = [op |-> "unmount", ret |-> 0]) =>
          /\ openFileDescTable = EmptyOpenFileDescTable
          /\ openFileTable = EmptyOpenFileTable

\* The layout sfs_format is to leave on a volume of n blocks.
FreshLayout(d, n) ==
    /\ d.n_blocks = n
    /\ d.freelist = 1
    /\ d.next_rootdir = 0
    /\ \A i \in 0 .. FILE_COUNT_LIMIT - 1 : d.files[i].first_block = 0
    /\ DOMAIN d.blk = 1 .. n - 1
    /\ \A i \in 1 .. n - 1 :
          /\ d.blk[i].type = SFS_BLOCK_TYPE_FREE
          /\ d.blk[i].prev_block = i - 1
          /\ d.blk[i].next_block = (IF i = n - 1 THEN 0 ELSE i + 1)

\* sfs_format on no active image, for every size of 1 .. 2 * DiskBlocks
\* blocks, and for the 4096-byte volume.
FormatLayouts ==
    /\ \A n \in 1 .. 2 * DiskBlocks :
          LET f == sfs_format(0, n * SFS_BLOCK_SIZE)
          IN  f.ret = 0 /\ FreshLayout(f.disk, n)
    /\ LET d == sfs_format(0, 4096).disk
       IN  /\ d.n_blocks = 8
           /\ d.blk[1].prev_block = 0 /\ d.blk[1].next_block = 2
           /\ d.blk[7].prev_block = 6 /\ d.blk[7].next_block = 0

\* C23: after a successful sfs_format(path, size) with n = size / 512,
\* n_blocks = n, freelist = 1, next_rootdir = 0, all 15 directory entries
\* are unused, and every block i in [1, n) is FREE with prev = i - 1 and
\* next = i + 1, except block n - 1 whose next is 0; a 4096-byte volume has
\* 8 blocks, block 1 with prev 0 and next 2, block 7 with prev 6 and next 0.
C23_FormatLayout ==
    /\ FormatLayouts
    /\ (~crashed /\ last = [op |-> "format", ret |-> 0]) =>
          /\ diskBlocks # 0
          /\ FreshLayout(disk, DiskBlocks)

\* A volume that was in use has just been formatted again.
C23_Witness ==
    /\ ~crashed /\ nOps > 0
    /\ last = [op |-> "format", ret |-> 0]
    /\ FreshLayout(disk, DiskBlocks)

\* C24: while a disk image is active, sfs_format and sfs_mount return -EBUSY
\* and do nothing else, for every argument: also for a format size that is
\* zero, not a multiple of the page size, or above SFS_MAX_DISK_SIZE.  The
\* volume, the mount state and both tables are unchanged.
C24_BusyWhileActive ==
    (~crashed /\ diskBlocks # 0) =>
        /\ \A diskSize \in {0, PageSize + 1, SFS_MAX_DISK_SIZE + PageSize,
                              DiskBlocks * SFS_BLOCK_SIZE} :
              sfs_format(diskBlocks, diskSize) = [ret |-> -EBUSY]
        /\ \A base \in MapBases : sfs_mount(World, base) = Result(World, -EBUSY)

\* The names of the live entries of d with their NUL, in slot order.
NamesInSlotOrder(d) ==
    LET live == LiveEntries(d)
        kth(k) == CHOOSE i \in live : Cardinality({j \in live : j < i}) = k - 1
    IN  [k \in 1 .. Cardinality(live) |->
            SubSeq(d.files[kth(k)].name, 1, strlen(d.files[kth(k)].name) + 1)]

\* The listing of the full directory of 15 files.
FullDirectoryListing == listLoop(FullDirectory, 0, <<>>)

\* C25: on a mounted volume, starting from a null cookie and with a buffer
\* of at least 24 bytes, repeated sfs_list calls return 0 once per live
\* entry, giving the names in increasing slot order, none omitted or
\* repeated; the call after the last live entry returns +1 and leaves the
\* cookie null, so that a further call starts again from slot 0.  With 15
\* live entries: 15 calls return 0 and the 16th returns +1.
C25_ListingVisitsEachEntryOnce ==
    /\ (~crashed /\ diskBlocks # 0) =>
          LET l == listLoop(World, 0, <<>>)
          IN  /\ l.names = NamesInSlotOrder(disk)
              /\ l.ret = 1
              /\ l.cookie = 0
              /\ listLoop(World, l.cookie, <<>>) = l
    /\ Len(FullDirectoryListing.names) = FILE_COUNT_LIMIT
    /\ FullDirectoryListing.names
          = [k \in 1 .. FILE_COUNT_LIMIT |-> NameNo(k) \o <<0>>]
    /\ FullDirectoryListing.ret = 1
    /\ FullDirectoryListing.cookie = 0

\* A listing has just run to its end on a volume with a live entry: the
\* call after the last name returned +1 and reset the cookie.
C25_Witness ==
    /\ ~crashed /\ diskBlocks # 0
    /\ last = [op |-> "list", ret |-> 1]
    /\ cookie = 0
    /\ LiveEntries(disk) # {}

\* C26: whenever sfs_list returns a status that is not 0, be it +1 at the
\* end of the listing or a negative error (-EINVAL for a buffer of size 0,
\* -ENOMEDIUM, -ENAMETOOLONG when the name does not fit), the cookie is NULL
\* after the call; and the status is 0 iff a name was stored in the buffer.
C26_CookieNullOnNonzeroStatus ==
    ~crashed =>
        \A filename_space \in {0, 1, SFS_FILE_NAME_SIZE_LIMIT} :
            LET r == sfs_list(World, cookie, filename_space)
            IN  /\ r.ret # 0 => r.cookie = 0
                /\ (r.ret = 0) <=> (r.out # <<>>)

\* Some block of d0 tagged from is tagged to in d1.
Retagged(d0, d1, from, to) ==
    \E b \in DOMAIN d0.blk :
        d0.blk[b].type = from /\ d1.blk[b].type = to

\* C27: read, close, list and open of a name that already exists never
\* modify the volume: every directory entry, every block's type, prev, next
\* and payload, and the free-list head are as before.  A block's type goes
\* from FREE to FILE only inside an open that creates a file or a write
\* that grows a file, and from FILE to FREE only inside a successful
\* remove.  (sfs_list yields a status, a cookie and a name and stores nothing
\* in the image: the List action leaves disk unchanged.)
C27_VolumeFrame ==
    ~crashed =>
        /\ \A fd \in Fds : \A len \in LensFor(fd), oob \in OobFor(fd) :
              LET r == sfs_read(World, fd, len, oob)
              IN  ~r.crash => r.w.disk = disk
        /\ \A fd \in Fds : \A oob \in OobFor(fd) :
              LET r == sfs_close(World, fd, oob)
              IN  ~r.crash => r.w.disk = disk
        /\ \A name \in Names, nomem \in 0 .. 2 :
              LET r == sfs_open(World, name, nomem)
                  d1 == r.w.disk
                  existed == diskBlocks # 0 /\ EntriesNamed(name) # {}
              IN  ~r.crash =>
                    /\ existed => d1 = disk
                    /\ Retagged(disk, d1, SFS_BLOCK_TYPE_FREE, SFS_BLOCK_TYPE_FILE)
                          => /\ ~existed
                             /\ \E i \in LiveEntries(d1) \ LiveEntries(disk) :
                                   strcmpEq(d1.files[i].name, name)
                    /\ ~Retagged(disk, d1, SFS_BLOCK_TYPE_FILE, SFS_BLOCK_TYPE_FREE)
        /\ \A fd \in Fds : \A seed \in SeedsFor(fd), len \in LensFor(fd),
                                oob \in OobFor(fd) :
              LET r == sfs_write(World, fd, seed, len, oob)
                  d1 == r.w.disk
              IN  ~r.crash =>
                    /\ Retagged(disk, d1, SFS_BLOCK_TYPE_FREE, SFS_BLOCK_TYPE_FILE)
                          => /\ r.ret = len
                             /\ \E i \in 0 .. FILE_COUNT_LIMIT - 1 :
                                   d1.files[i].size > disk.files[i].size
                    /\ ~Retagged(disk, d1, SFS_BLOCK_TYPE_FILE, SFS_BLOCK_TYPE_FREE)
        /\ \A name \in Names :
              LET r == sfs_remove(World, name)
                  d1 == r.w.disk
              IN  ~r.crash =>
                    /\ ~Retagged(disk, d1, SFS_BLOCK_TYPE_FREE, SFS_BLOCK_TYPE_FILE)
                    /\ Retagged(disk, d1, SFS_BLOCK_TYPE_FILE, SFS_BLOCK_TYPE_FREE)
                          => r.ret = 0

\* A file that exists was just opened a second time.
C27_Witness ==
    /\ ~crashed /\ diskBlocks # 0
    /\ last.op = "open" /\ last.ret >= 0
    /\ \E i \in LiveEntries(disk) :
          /\ openFileTable[i] # NULL
          /\ openFileTable[i][1].refCount = 2

\* ------------------------------------------------------------------------
\* sfs-fsck as a program of its own: it reads an image file that anything
\* may have written.  The images below are taken apart one field at a time.
\* ------------------------------------------------------------------------

\* How many fields of an image are changed before fsck reads it.
MaxDamage == 1

\* The size of the image file; it stays what it was when n_blocks is damaged.
ImageBytes == DiskBlocks * SFS_BLOCK_SIZE

\* Two one-block files on the formatted volume.
TwoFiles == openNames(Formatted, 2)

\* An image whose root directory continues in block 1: entry 0 of that
\* block is the empty file "a" in block 2, the blocks from 3 on are free.
RootDirImage ==
    LET f == FormattedImage(DiskBlocks)
        at == DIR_ENTRY_SIZE - BLOCK_HDR_SIZE
    IN  [f EXCEPT
            !.next_rootdir = 1,
            !.freelist = 3,
            !.blk[1] = [type |-> SFS_BLOCK_TYPE_DIR,
                        prev_block |-> 0, next_block |-> 0,
                        data |-> [ZeroData EXCEPT ![at] = 2,
                                                  ![at + 8] = NameA[1]]],
            !.blk[2] = [type |-> SFS_BLOCK_TYPE_FILE,
                        prev_block |-> 0, next_block |-> 0,
                        data |-> ZeroData],
            !.blk[3].prev_block = 0]

\* The stored file removed again, and a file opened under the empty name.
Removed == sfs_remove(Stored, NameA)
EmptyNamed == sfs_open(Formatted, NameEmpty, 0)

\* The images fsck is started on: volumes the API has written and the image
\* with a second directory block.
FsckImages ==
    {Formatted.disk, Stored.disk, TwoFiles.disk, RootDirImage,
     Removed.w.disk, EmptyNamed.w.disk}

FlipBit(x, k) == IF (x \div (2 ^ k)) % 2 = 1 THEN x - 2 ^ k ELSE x + 2 ^ k

FlippedBits == {0, 1, 2, WordBits - 1}
TypeByteValues == {0, 68, 70, 255}
DamagedSizes == {0, 1, BLOCK_DATA_SIZE, BLOCK_DATA_SIZE + 1,
                 2 * BLOCK_DATA_SIZE, 2 * BLOCK_DATA_SIZE + 1,
                 UINT32_MAX - (BLOCK_DATA_SIZE - 2), UINT32_MAX}
DamagedNames == {ZeroName, paddedName(NameA),
                 Rep(109, SFS_FILE_NAME_SIZE_LIMIT),
                 <<97, 0, 98>> \o Rep(0, SFS_FILE_NAME_SIZE_LIMIT - 3)}
DamagedSlots == {0, 1}

\* The block removed from the list it is on: what pointed to it points to
\* its successor, and the successor points back to its predecessor.
Unlinked(d, b) ==
    LET p == d.blk[b].prev_block
        n == d.blk[b].next_block
        byPrev == p \in 1 .. d.n_blocks - 1 /\ d.blk[p].next_block = b
        d1 == IF byPrev THEN [d EXCEPT !.blk[p].next_block = n]
              ELSE IF d.freelist = b THEN [d EXCEPT !.freelist = n]
              ELSE IF d.next_rootdir = b THEN [d EXCEPT !.next_rootdir = n]
              ELSE [d EXCEPT !.files =
                       [i \in DOMAIN d.files |->
                           IF d.files[i].first_block = b
                           THEN [d.files[i] EXCEPT !.first_block = n]
                           ELSE d.files[i]]]
    IN  IF n \in 1 .. d.n_blocks - 1
        THEN [d1 EXCEPT !.blk[n].prev_block = p] ELSE d1

\* One field of the image is overwritten and fsck is run on the result.
Damage(d1, kind) ==
    /\ nOps < MaxDamage
    /\ d1 # disk
    /\ disk' = d1
    /\ last' = [op |-> kind, ret |-> fsck(d1, ImageBytes)]
    /\ nOps' = nOps + 1
    /\ UNCHANGED <<diskBlocks, openFileTable, openFileDescTable, cookie,
                   crashed, written>>

CorruptTypeByte(b, k, v) ==
    Damage([disk EXCEPT !.blk[b].type[k] = v], "type byte")

FlipPrevBit(b, k) ==
    Damage([disk EXCEPT !.blk[b].prev_block = FlipBit(@, k)], "prev bit")

FlipNextBit(b, k) ==
    Damage([disk EXCEPT !.blk[b].next_block = FlipBit(@, k)], "next bit")

RedirectNext(b, c) ==
    Damage([disk EXCEPT !.blk[b].next_block = c], "redirect")

UnlinkBlock(b) == Damage(Unlinked(disk, b), "unlink")

SetTag(b, t) == Damage([disk EXCEPT !.blk[b].type = t], "tag")

SetFreelist(v) == Damage([disk EXCEPT !.freelist = v], "freelist")

SetNextRootdir(v) == Damage([disk EXCEPT !.next_rootdir = v], "next_rootdir")

SetFirstBlock(i, v) ==
    Damage([disk EXCEPT !.files[i].first_block = v], "first_block")

SetSize(i, s) == Damage([disk EXCEPT !.files[i].size = s], "size")

SetName(i, name) == Damage([disk EXCEPT !.files[i].name = name], "name")

SetMagicByte(k, v) == Damage([disk EXCEPT !.magic[k] = v], "magic")

SetNBlocks(v) == Damage([disk EXCEPT !.n_blocks = v], "n_blocks")

InitFsck ==
    /\ disk \in FsckImages
    /\ diskBlocks = 0
    /\ openFileTable = Formatted.openFileTable
    /\ openFileDescTable = Formatted.openFileDescTable
    /\ cookie = 0
    /\ crashed = FALSE
    /\ written = [i \in 0 .. FILE_COUNT_LIMIT - 1 |-> <<>>]
    /\ last = [op |-> "fsck", ret |-> fsck(disk, ImageBytes)]
    /\ nOps = 0

NextFsck ==
    \/ \E b \in 1 .. DiskBlocks - 1 :
          \/ \E k \in 1 .. 4, v \in TypeByteValues : CorruptTypeByte(b, k, v)
          \/ \E k \in FlippedBits : FlipPrevBit(b, k)
          \/ \E k \in FlippedBits : FlipNextBit(b, k)
          \/ \E c \in 0 .. DiskBlocks : RedirectNext(b, c)
          \/ UnlinkBlock(b)
          \/ \E t \in {SFS_BLOCK_TYPE_FREE, SFS_BLOCK_TYPE_FILE,
                       SFS_BLOCK_TYPE_DIR} : SetTag(b, t)
    \/ \E v \in 0 .. DiskBlocks : SetFreelist(v)
    \/ \E v \in 0 .. DiskBlocks : SetNextRootdir(v)
    \/ \E i \in DamagedSlots :
          \/ \E v \in 0 .. DiskBlocks : SetFirstBlock(i, v)
          \/ \E s \in DamagedSizes : SetSize(i, s)
          \/ \E name \in DamagedNames : SetName(i, name)
    \/ \E k \in 1 .. Len(SFS_DISK_MAGIC) : SetMagicByte(k, 0)
    \/ \E v \in {DiskBlocks - 1, DiskBlocks + 1} : SetNBlocks(v)

SpecFsck == InitFsck /\ [][NextFsck]_vars

\* to is reached from block from along the next pointers.
RECURSIVE Reaches(_, _, _, _)
Reaches(d, from, to, fuel) ==
    IF from = to THEN TRUE
    ELSE IF fuel = 0 \/ from \notin 1 .. d.n_blocks - 1 THEN FALSE
    ELSE Reaches(d, d.blk[from].next_block, to, fuel - 1)

\* One next pointer was changed and now leads back to its own block.
MadeCircular(d0, d1) ==
    \E b \in 1 .. DiskBlocks - 1 :
        /\ d1.blk[b].next_block # d0.blk[b].next_block
        /\ Reaches(d1, d1.blk[b].next_block, b, DiskBlocks)

C28_Step ==
    (/\ fsck(disk, ImageBytes) = 0
     /\ \/ last'.op \in {"type byte", "prev bit", "next bit", "unlink"}
        \/ last'.op = "redirect" /\ MadeCircular(disk, disk'))
        => fsck(disk', ImageBytes) # 0

\* C28: on an image that passes fsck, each single corruption (another value
\* in one byte of a block's type tag, one flipped bit of a prev or a next
\* pointer, a next pointer redirected so that its list becomes circular, a
\* block unlinked from its list) gives an image that fsck rejects.
C28_SingleCorruptionDetected == [][C28_Step]_vars

\* A free block was unlinked from the free list of an image that passes
\* fsck, and fsck has rejected the result.
C28_Witness ==
    /\ last.op = "unlink"
    /\ last.ret # 0
    /\ \E d0 \in FsckImages, b \in 1 .. DiskBlocks - 1 :
          /\ fsck(d0, ImageBytes) = 0
          /\ d0.blk[b].type = SFS_BLOCK_TYPE_FREE
          /\ disk = Unlinked(d0, b)

\* The directory entries of an image by where they are stored: <<0, i>> is
\* entry i of the superblock, <<b, i>> entry i of directory block b.
RootDirChain(d) == listFrom(d, d.next_rootdir, d.n_blocks)

EntryAt(d, loc) ==
    IF loc[1] = 0 THEN d.files[loc[2]] ELSE dirBlockFiles(d, loc[1])[loc[2]]

LiveAt(d) ==
    {loc \in ({0} \cup {RootDirChain(d).ids[k] : k \in DOMAIN RootDirChain(d).ids})
                 \X (0 .. DIR_ENTRIES_PER_BLOCK - 1) :
        EntryAt(d, loc).first_block # 0}

ChainAt(d, loc) == listFrom(d, EntryAt(d, loc).first_block, d.n_blocks)

OnList(l, b) == \E k \in DOMAIN l.ids : l.ids[k] = b

\* What the header of sfs-fsck.c promises about an image it accepts.
Consistent(d) ==
    LET free == FreeList(d)
        root == RootDirChain(d)
        live == LiveAt(d)
    IN  /\ DoublyLinked(d, free)
        /\ DoublyLinked(d, root)
        /\ \A loc \in live : DoublyLinked(d, ChainAt(d, loc))
        /\ \A b \in 1 .. d.n_blocks - 1 :
              LET files == {loc \in live : OnList(ChainAt(d, loc), b)}
              IN  /\ (IF OnList(free, b) THEN 1 ELSE 0)
                        + (IF OnList(root, b) THEN 1 ELSE 0)
                        + Cardinality(files) = 1
                  /\ Occurrences(free.ids, b) <= 1
                  /\ Occurrences(root.ids, b) <= 1
                  /\ \A loc \in files :
                        Occurrences(ChainAt(d, loc).ids, b) = 1
                  /\ d.blk[b].type =
                        (IF OnList(free, b) THEN SFS_BLOCK_TYPE_FREE
                         ELSE IF OnList(root, b) THEN SFS_BLOCK_TYPE_DIR
                         ELSE SFS_BLOCK_TYPE_FILE)
        /\ \A loc \in live :
              /\ WellFormedName(EntryAt(d, loc).name)
              /\ Len(ChainAt(d, loc).ids) = BlocksFor(EntryAt(d, loc).size)

fsckChecks(d, image_size) ==
    IF check_superblock(d, image_size).status # 0
    THEN <<"check_superblock">>
    ELSE <<"check_superblock", "check_root_directory",
           "check_for_lost_blocks">>

\* C30: fsck stops after check_superblock only for a wrong magic number or
\* a wrong size: on every other image, whatever the walks of the free list
\* and of the next_rootdir chain report, it goes on to check the
\* directory entries and to look for lost blocks.
C30_StopsOnlyOnFatalErrors ==
    (/\ disk.magic = SFS_DISK_MAGIC
     /\ disk.n_blocks * SFS_BLOCK_SIZE = ImageBytes)
        => fsckChecks(disk, ImageBytes) =
              <<"check_superblock", "check_root_directory",
                "check_for_lost_blocks">>

\* ------------------------------------------------------------------------
\* How long the walks are.  Each operator below runs one loop of the source
\* and counts the blocks it comes to; the count stops growing at limit, so
\* that a loop that would never end shows as a count above limit.
\* ------------------------------------------------------------------------

\* A faulty marking: a block with the wrong type tag is left unvisited.
markVisited_LeavesCorrupt(d, bytemap, list_type, cur_id) ==
    IF d.blk[cur_id].type # expectedBlockType(list_type) THEN bytemap
    ELSE [bytemap EXCEPT ![cur_id] = list_type]

\* check_blocklist's entry in the byte map for the block it is at.
markVisited(d, bytemap, list_type, cur_id) ==
    [bytemap EXCEPT ![cur_id] =
        IF d.blk[cur_id].type # expectedBlockType(list_type)
        THEN B_corrupt ELSE list_type]

\* The number of times the body of check_blocklist's loop is entered from
\* cur_id on, n being the times so far.
RECURSIVE blocklistIterations(_, _, _, _, _, _)
blocklistIterations(d, bytemap, list_type, cur_id, n, limit) ==
    IF cur_id = 0 THEN n
    ELSE IF cur_id > d.n_blocks \/ bytemap[cur_id] = list_type
            \/ bytemap[cur_id] # B_unvisited \/ n >= limit
    THEN n + 1
    ELSE blocklistIterations(d, markVisited(d, bytemap, list_type, cur_id),
                             list_type, d.blk[cur_id].next_block, n + 1, limit)

\* The byte map check_superblock starts with.
FreshBytemap(d) ==
    [i \in 0 .. d.n_blocks |->
        IF i = 0 THEN B_super
        ELSE IF i = d.n_blocks THEN B_end_of_disk ELSE B_unvisited]

\* The blocks the first loop of allocateBlocks comes to, n so far.
RECURSIVE allocWalkVisits(_, _, _, _, _, _)
allocWalkVisits(d, last_alloc_id, i, n_blocks, n, limit) ==
    IF i >= n_blocks \/ n > limit THEN n
    ELSE IF d.blk[last_alloc_id].next_block = 0 THEN n
    ELSE IF ~isFreeBlock(d, d.blk[last_alloc_id].next_block) THEN n + 1
    ELSE allocWalkVisits(d, d.blk[last_alloc_id].next_block, i + 1, n_blocks,
                         n + 1, limit)

\* The blocks the loop of freeBlocks comes to from block b on, n so far.
RECURSIVE freeWalkVisits(_, _, _, _)
freeWalkVisits(d, b, n, limit) ==
    IF d.blk[b].type = SFS_BLOCK_TYPE_FREE \/ n >= limit THEN n + 1
    ELSE LET d1 == setBlockType(d, b, SFS_BLOCK_TYPE_FREE)
         IN  IF d1.blk[b].next_block = 0 \/ ~validId(d1, d1.blk[b].next_block)
             THEN n + 1
             ELSE freeWalkVisits(d1, d1.blk[b].next_block, n + 1, limit)

\* The blocks the copy loop of sfs_read comes to, n before diskBlock.
RECURSIVE readLoopVisits(_, _, _, _, _, _)
readLoopVisits(d, diskBlock, chunkSize, toRead, n, limit) ==
    LET toRead1 == IF chunkSize > 0 THEN toRead - chunkSize ELSE toRead
        next == d.blk[diskBlock].next_block
    IN  IF toRead1 = 0 \/ n >= limit THEN n + 1
        ELSE IF ~isFileBlock(d, next) \/ next = 0 THEN n + 1
        ELSE readLoopVisits(d, next, sizeMin(BLOCK_DATA_SIZE, toRead1),
                            toRead1, n + 1, limit)

\* The blocks the copy loop of sfs_write comes to, n before diskBlock.
RECURSIVE writeLoopVisits(_, _, _, _, _, _, _)
writeLoopVisits(d, diskBlock, chunkSize, toWrite, firstNewId, n, limit) ==
    LET toWrite1 == IF chunkSize > 0 THEN toWrite - chunkSize ELSE toWrite
        next == d.blk[diskBlock].next_block
        chunk1 == sizeMin(BLOCK_DATA_SIZE, toWrite1)
    IN  IF toWrite1 = 0 \/ n >= limit THEN n + 1
        ELSE IF ~isFileBlock(d, next) THEN n + 1
        ELSE IF next = 0
        THEN IF firstNewId = 0 \/ ~isFileBlock(d, firstNewId) THEN n + 1
             ELSE writeLoopVisits([d EXCEPT
                                      !.blk[diskBlock].next_block = firstNewId,
                                      !.blk[firstNewId].prev_block = diskBlock],
                                  firstNewId, chunk1, toWrite1, 0, n + 1, limit)
        ELSE writeLoopVisits(d, next, chunk1, toWrite1, firstNewId, n + 1,
                             limit)

\* The blocks sfs_read(fd, buf, len) walks over; 0 when it returns or fails
\* before its loop.
sfs_read_Visits(w, fd, len) ==
    IF fd < 0 \/ fd >= OPEN_FILE_LIMIT THEN 0
    ELSE IF w.openFileDescTable[fd] = NULL THEN 0
    ELSE
    LET tFile == w.openFileDescTable[fd][1]
        fileEntry == w.openFileTable[tFile.fileEntry][1]
    IN  IF ~mapped(w, fileEntry.diskFile) THEN 0
        ELSE
        LET fileSize == w.disk.files[fileEntry.diskFile.idx].size
            currPos == tFile.currPos
        IN  IF ~(currPos <= fileSize) THEN 0
            ELSE IF tFile.currBlock = 0 \/ ~isFileBlock(w.disk, tFile.currBlock)
            THEN 0
            ELSE
            LET totalToRead == sizeMin(fileSize - currPos, len)
            IN  readLoopVisits(w.disk, tFile.currBlock,
                    sizeMin(roundUp(currPos, BLOCK_DATA_SIZE) - currPos,
                            totalToRead),
                    totalToRead, 0, w.disk.n_blocks)

\* The blocks sfs_write(fd, buf, len) walks over in its copy loop; 0 when
\* it returns or fails before the loop.
sfs_write_Visits(w, fd, len) ==
    IF fd < 0 \/ fd >= OPEN_FILE_LIMIT THEN 0
    ELSE IF w.openFileDescTable[fd] = NULL THEN 0
    ELSE
    LET tFile == w.openFileDescTable[fd][1]
        fileEntry == w.openFileTable[tFile.fileEntry][1]
    IN  IF ~mapped(w, fileEntry.diskFile) THEN 0
        ELSE
        LET fileSize == w.disk.files[fileEntry.diskFile.idx].size
            currPos == tFile.currPos
            fileAllocSize == roundUp(fileSize, BLOCK_DATA_SIZE)
            endPos == len + currPos
            grow == endPos > fileAllocSize
            fileNewAllocSize == roundUp(endPos, BLOCK_DATA_SIZE)
            addlBlocks == ((fileNewAllocSize - fileAllocSize) \div BLOCK_DATA_SIZE)
                            % (UINT32_MAX + 1)
            a == IF grow
                 THEN allocateBlocks(w.disk, addlBlocks, SFS_BLOCK_TYPE_FILE)
                 ELSE [id |-> 0, disk |-> w.disk, abort |-> FALSE]
        IN  IF ~(currPos <= fileSize) THEN 0
            ELSE IF grow /\ fileNewAllocSize > SFS_MAX_FILE_SIZE THEN 0
            ELSE IF grow /\ ~(addlBlocks >= 1) THEN 0
            ELSE IF a.abort \/ (grow /\ a.id = 0) THEN 0
            ELSE IF tFile.currBlock = 0 \/ ~isFileBlock(a.disk, tFile.currBlock)
            THEN 0
            ELSE writeLoopVisits(a.disk, tFile.currBlock,
                    sizeMin(roundUp(currPos, BLOCK_DATA_SIZE) - currPos, len),
                    len, a.id, 0, w.disk.n_blocks)

\* The image d with one next pointer set to any id up to one past n_blocks.
Redirected(d) ==
    {d} \cup {[d EXCEPT !.blk[b].next_block = c] :
                 b \in 1 .. d.n_blocks - 1, c \in 0 .. d.n_blocks + 1}

\* C31: every walk is bounded by the volume's block count.  On the volume
\* and on the volume with any one next pointer redirected (which makes
\* lists circular or lets them merge), a check_blocklist walk from any head
\* and for any list, on a fresh byte map or after the walk of the free list,
\* enters its loop at most n_blocks times, and fsck gives its exit status.
\* In the engine the walks of allocateBlocks, of freeBlocks on a live
\* entry's chain, of sfs_read and of sfs_write come to at most n_blocks - 1
\* blocks.
C31_WalksAreBounded ==
    /\ \A d \in Redirected(disk) :
          /\ fsck(d, d.n_blocks * SFS_BLOCK_SIZE) \in {0, 1}
          /\ \A first_id \in 0 .. d.n_blocks + 1,
                list_type \in {B_free, B_rootdir, B_file0} :
                /\ blocklistIterations(d, FreshBytemap(d), list_type,
                                       first_id, 0, d.n_blocks + 1)
                      <= d.n_blocks
                /\ list_type # B_free =>
                      blocklistIterations(d,
                          check_blocklist(d, FreshBytemap(d), d.freelist,
                                          B_free).bytemap,
                          list_type, first_id, 0, d.n_blocks + 1)
                          <= d.n_blocks
    /\ \A n_blocks \in 1 .. disk.n_blocks + 1 :
          (disk.freelist # 0 /\ isFreeBlock(disk, disk.freelist)) =>
              allocWalkVisits(disk, disk.freelist, 1, n_blocks, 1,
                              disk.n_blocks) <= disk.n_blocks - 1
    /\ \A i \in LiveEntries(disk) :
          freeWalkVisits(disk, disk.files[i].first_block, 0, disk.n_blocks)
              <= disk.n_blocks - 1
    /\ \A fd \in OpenFds, len \in Lens :
          /\ sfs_read_Visits(World, fd, len) <= disk.n_blocks - 1
          /\ sfs_write_Visits(World, fd, len) <= disk.n_blocks - 1

Clamp(x, lo, hi) == IF x < lo THEN lo ELSE IF x > hi THEN hi ELSE x

SeekDeltas == {-(BLOCK_DATA_SIZE + 1), -1, 0, 1, BLOCK_DATA_SIZE,
               DiskBlocks * BLOCK_DATA_SIZE}

\* C32: on an open descriptor at position pos of a file of size s,
\* sfs_seek(fd, delta) returns clamp(pos + delta, 0, s), leaves the
\* descriptor at that position and sfs_getpos(fd) then returns it; on an fd
\* that is not open both return -EBADF.
C32_SeekClamps ==
    (~crashed /\ diskBlocks # 0) =>
        \A fd \in Fds \ {OPEN_FILE_LIMIT}, delta \in SeekDeltas :
            LET r == sfs_seek(World, fd, delta)
                g == sfs_getpos(r.w, fd)
            IN  IF fd \in OpenFds
                THEN LET tFile == openFileDescTable[fd][1]
                         v == openFileTable[tFile.fileEntry][1]
                         size == disk.files[v.diskFile.idx].size
                         pos == Clamp(tFile.currPos + delta, 0, size)
                     IN  /\ r.ret = pos
                         /\ r.w.openFileDescTable[fd][1].currPos = pos
                         /\ g.ret = pos
                ELSE r.ret = -EBADF /\ g.ret = -EBADF

\* ------------------------------------------------------------------------
\* Which way the copy loops end.
\* ------------------------------------------------------------------------

\* How the copy loop of sfs_read ends: "done" (toRead == 0), "type"
\* (accessFileBlock's assertion fails) or "null" (assert(diskBlock != NULL)
\* fails).
RECURSIVE readLoopEnd(_, _, _, _)
readLoopEnd(d, diskBlock, chunkSize, toRead) ==
    LET toRead1 == IF chunkSize > 0 THEN toRead - chunkSize ELSE toRead
        next == d.blk[diskBlock].next_block
    IN  IF toRead1 = 0 THEN "done"
        ELSE IF ~isFileBlock(d, next) THEN "type"
        ELSE IF next = 0 THEN "null"
        ELSE readLoopEnd(d, next, sizeMin(BLOCK_DATA_SIZE, toRead1), toRead1)

\* How the copy loop of sfs_write ends, and how often it spliced the new
\* blocks in: "done", "type" (accessFileBlock's assertion fails) or "null"
\* (assert(firstNewId != 0) fails).
RECURSIVE writeLoopEnd(_, _, _, _, _, _)
writeLoopEnd(d, diskBlock, chunkSize, toWrite, firstNewId, splices) ==
    LET toWrite1 == IF chunkSize > 0 THEN toWrite - chunkSize ELSE toWrite
        next == d.blk[diskBlock].next_block
        chunk1 == sizeMin(BLOCK_DATA_SIZE, toWrite1)
    IN  IF toWrite1 = 0 THEN [end |-> "done", splices |-> splices]
        ELSE IF ~isFileBlock(d, next) THEN [end |-> "type", splices |-> splices]
        ELSE IF next = 0
        THEN IF firstNewId = 0 THEN [end |-> "null", splices |-> splices]
             ELSE IF ~isFileBlock(d, firstNewId)
             THEN [end |-> "type", splices |-> splices]
             ELSE writeLoopEnd([d EXCEPT
                                   !.blk[diskBlock].next_block = firstNewId,
                                   !.blk[firstNewId].prev_block = diskBlock],
                               firstNewId, chunk1, toWrite1, 0, splices + 1)
        ELSE writeLoopEnd(d, next, chunk1, toWrite1, firstNewId, splices)

\* sfs_read(fd, buf, len) up to its loop: how the loop ends, "none" when
\* the call returns or fails before it.
sfs_read_End(w, fd, len) ==
    IF fd < 0 \/ fd >= OPEN_FILE_LIMIT THEN "none"
    ELSE IF w.openFileDescTable[fd] = NULL THEN "none"
    ELSE
    LET tFile == w.openFileDescTable[fd][1]
        fileEntry == w.openFileTable[tFile.fileEntry][1]
    IN  IF ~mapped(w, fileEntry.diskFile) THEN "none"
        ELSE
        LET fileSize == w.disk.files[fileEntry.diskFile.idx].size
            currPos == tFile.currPos
        IN  IF ~(currPos <= fileSize) THEN "none"
            ELSE IF tFile.currBlock = 0 \/ ~isFileBlock(w.disk, tFile.currBlock)
            THEN "none"
            ELSE
            LET totalToRead == sizeMin(fileSize - currPos, len)
            IN  readLoopEnd(w.disk, tFile.currBlock,
                    sizeMin(roundUp(currPos, BLOCK_DATA_SIZE) - currPos,
                            totalToRead),
                    totalToRead)

\* sfs_write(fd, buf, len) up to its loop: the first block it allocated (0:
\* none), how the loop ends and how often it spliced; end is "none" when
\* the call returns or fails before the loop.
sfs_write_End(w, fd, len) ==
    LET none == [firstNewId |-> 0, end |-> "none", splices |-> 0]
    IN
    IF fd < 0 \/ fd >= OPEN_FILE_LIMIT THEN none
    ELSE IF w.openFileDescTable[fd] = NULL THEN none
    ELSE
    LET tFile == w.openFileDescTable[fd][1]
        fileEntry == w.openFileTable[tFile.fileEntry][1]
    IN  IF ~mapped(w, fileEntry.diskFile) THEN none
        ELSE
        LET fileSize == w.disk.files[fileEntry.diskFile.idx].size
            currPos == tFile.currPos
            fileAllocSize == roundUp(fileSize, BLOCK_DATA_SIZE)
            endPos == len + currPos
            grow == endPos > fileAllocSize
            fileNewAllocSize == roundUp(endPos, BLOCK_DATA_SIZE)
            addlBlocks == ((fileNewAllocSize - fileAllocSize) \div BLOCK_DATA_SIZE)
                            % (UINT32_MAX + 1)
            a == IF grow
                 THEN allocateBlocks(w.disk, addlBlocks, SFS_BLOCK_TYPE_FILE)
                 ELSE [id |-> 0, disk |-> w.disk, abort |-> FALSE]
        IN  IF ~(currPos <= fileSize) THEN none
            ELSE IF grow /\ fileNewAllocSize > SFS_MAX_FILE_SIZE THEN none
            ELSE IF grow /\ ~(addlBlocks >= 1) THEN none
            ELSE IF a.abort \/ (grow /\ a.id = 0) THEN none
            ELSE IF tFile.currBlock = 0 \/ ~isFileBlock(a.disk, tFile.currBlock)
            THEN [none EXCEPT !.firstNewId = a.id]
            ELSE [firstNewId |-> a.id] @@
                 writeLoopEnd(a.disk, tFile.currBlock,
                    sizeMin(roundUp(currPos, BLOCK_DATA_SIZE) - currPos, len),
                    len, a.id, 0)

\* Block b is on the free list or on the chain of a live entry.
OnSomeList(d, b) ==
    Occurrences(FreeList(d).ids, b) + chainOccurrencesFrom(d, 0, b) > 0

\* C33: the chain is long enough for read and write.  On every open
\* descriptor sfs_read never comes to a null next block while bytes remain;
\* sfs_write comes to the end of the chain with bytes left only when it
\* allocated blocks in this call; and when it allocated blocks it splices
\* them in exactly once, and when it has returned every block of the volume
\* is on a list.
C33_ChainAdequate ==
    (~crashed /\ diskBlocks # 0) =>
        \A fd \in OpenFds, len \in Lens :
            LET e == sfs_write_End(World, fd, len)
                r == sfs_write(World, fd, 0, len, TRUE)
            IN  /\ sfs_read_End(World, fd, len) # "null"
                /\ e.end # "null"
                /\ e.firstNewId # 0 => e.splices = 1
                /\ (e.firstNewId # 0 /\ ~r.crash) =>
                      \A b \in 1 .. disk.n_blocks - 1 :
                          OnSomeList(r.w.disk, b)

\* The file descriptor fd is open on: the entry its v-node points at.
EntryOfFd(fd) ==
    openFileTable[openFileDescTable[fd][1].fileEntry][1].diskFile.idx

\* C34: every open descriptor's curr_block is the block of its file's chain
\* at index (max(curr_pos, 1) - 1) div 500, counting first_block as 0.
C34_BlockCursor ==
    (~crashed /\ diskBlocks # 0) =>
        \A fd \in OpenFds :
            LET tFile == openFileDescTable[fd][1]
                chain == ChainOf(disk, EntryOfFd(fd)).ids
                pos == IF tFile.currPos > 1 THEN tFile.currPos ELSE 1
                k == (pos - 1) \div BLOCK_DATA_SIZE
            IN  /\ k + 1 <= Len(chain)
                /\ tFile.currBlock = chain[k + 1]

\* Two descriptors are open on one file: one stands exactly at the end of
\* the first block, the other has just grown the file to a third block by a
\* write and stands in that block.
C34_Witness ==
    /\ ~crashed
    /\ last.op = "write"
    /\ last.ret > 0
    /\ \E fd1 \in OpenFds, fd2 \in OpenFds :
          LET chain == ChainOf(disk, EntryOfFd(fd2)).ids
          IN  /\ fd1 # fd2
              /\ EntryOfFd(fd1) = EntryOfFd(fd2)
              /\ openFileDescTable[fd1][1].currPos = BLOCK_DATA_SIZE
              /\ openFileDescTable[fd1][1].currBlock = chain[1]
              /\ Len(chain) = 3
              /\ openFileDescTable[fd2][1].currPos > 2 * BLOCK_DATA_SIZE
              /\ openFileDescTable[fd2][1].currBlock = chain[3]

\* The descriptors 0 .. n - 1 closed, one after the other.
RECURSIVE closeFds(_, _)
closeFds(w, n) ==
    IF n = 0 THEN w
    ELSE CHOOSE w1 \in {sfs_close(v, n - 1, TRUE).w :
                           v \in {closeFds(w, n - 1)}} : TRUE

\* The files NameNo(1) .. NameNo(n) removed, one after the other.
RECURSIVE removeNames(_, _)
removeNames(w, n) ==
    IF n = 0 THEN w
    ELSE CHOOSE w1 \in {sfs_remove(v, NameNo(n)).w :
                           v \in {removeNames(w, n - 1)}} : TRUE

\* The volume filled with one-block files until no block is free, and
\* emptied again.
FilledVolume == closeFds(openNames(Formatted, DiskBlocks - 1), DiskBlocks - 1)
EmptiedVolume == removeNames(FilledVolume, DiskBlocks - 1)

\* C35: freeBlocks on the chain of a live entry, whose first block has prev
\* 0, makes the free list the freed blocks in chain order followed by the
\* old free list in its old order, all of them tagged FREE; allocating m
\* blocks next, m up to the chain's length, takes the first m blocks of that
\* chain; and a volume filled to capacity and emptied again has every block
\* from 1 on on its free list exactly once.
C35_FreedChainGoesInFront ==
    /\ \A i \in LiveEntries(disk) :
          LET first == disk.files[i].first_block
              chain == ChainOf(disk, i)
              r == freeBlocks(disk, first)
          IN  (/\ chain.ends
               /\ FreeList(disk).ends
               /\ disk.blk[first].prev_block = 0
               /\ \A k \in DOMAIN chain.ids :
                     disk.blk[chain.ids[k]].type = SFS_BLOCK_TYPE_FILE)
                  =>
                  /\ ~r.abort
                  /\ FreeList(r.disk).ends
                  /\ FreeList(r.disk).ids = chain.ids \o FreeList(disk).ids
                  /\ \A k \in DOMAIN chain.ids :
                        r.disk.blk[chain.ids[k]].type = SFS_BLOCK_TYPE_FREE
                  /\ \A m \in 1 .. Len(chain.ids) :
                        LET a == allocateBlocks(r.disk, m, SFS_BLOCK_TYPE_FILE)
                        IN  /\ ~a.abort
                            /\ a.id = first
                            /\ listFrom(a.disk, a.id, a.disk.n_blocks).ids
                                  = SubSeq(chain.ids, 1, m)
    /\ FreeList(FilledVolume.disk).ids = <<>>
    /\ FreeList(EmptiedVolume.disk).ends
    /\ Len(FreeList(EmptiedVolume.disk).ids) = DiskBlocks - 1
    /\ \A b \in 1 .. DiskBlocks - 1 :
          Occurrences(FreeList(EmptiedVolume.disk).ids, b) = 1

\* A two-block file was removed while a block was free: the two blocks are
\* at the front of the free list and the block that was free is behind them.
C35_Witness ==
    /\ last = [op |-> "remove", ret |-> 0]
    /\ ~crashed
    /\ Len(FreeList(disk).ids) = DiskBlocks - 1
    /\ SubSeq(FreeList(disk).ids, 1, 2) = <<1, 2>>
    /\ \A b \in 1 .. DiskBlocks - 1 :
          disk.blk[b].type = SFS_BLOCK_TYPE_FREE
    /\ LiveEntries(disk) = {}

\* C36: no descriptor or v-node outlives its volume.  Every v-node in slot
\* i points at entry i of the volume that is mounted now, that entry is
\* live, and every open descriptor's start_block is the first_block of the
\* entry of its v-node.
C36_NothingOutlivesTheVolume ==
    ~crashed =>
        /\ \A i \in 0 .. FILE_COUNT_LIMIT - 1 :
              openFileTable[i] # NULL =>
                  /\ mapped(World, openFileTable[i][1].diskFile)
                  /\ openFileTable[i][1].diskFile.idx = i
                  /\ disk.files[i].first_block # 0
        /\ \A fd \in OpenFds :
              LET tFile == openFileDescTable[fd][1]
              IN  /\ openFileTable[tFile.fileEntry] # NULL
                  /\ tFile.startBlock =
                        disk.files[tFile.fileEntry].first_block

\* The live entries of d whose name is fileName.
LiveNamed(d, fileName) ==
    {i \in LiveEntries(d) : strcmpEq(d.files[i].name, fileName)}

\* C37: no two live entries have the same name.  When a live entry has the
\* name given to sfs_open, in whatever slot, the call adds no entry and a
\* descriptor it returns is on that entry; when none has it, the call adds
\* at most one entry, of that name.
C37_NamesAreUnique ==
    (~crashed /\ diskBlocks # 0) =>
        /\ \A i \in LiveEntries(disk), j \in LiveEntries(disk) :
              i # j => disk.files[i].name # disk.files[j].name
        /\ \A name \in {NameA, NameEmpty, NameNo(2)} :
              LET r == sfs_open(World, name, 0)
                  old == LiveNamed(disk, name)
              IN  ~r.crash =>
                     /\ Cardinality(LiveNamed(r.w.disk, name)) <= 1
                     /\ old # {} =>
                           /\ r.w.disk = disk
                           /\ r.ret >= 0 =>
                                 r.w.openFileDescTable[r.ret][1].fileEntry
                                     \in old
                     /\ old = {} =>
                           LiveEntries(r.w.disk) \ LiveEntries(disk)
                               \subseteq LiveNamed(r.w.disk, name)

\* A file was opened by its name while the slot in front of its entry was
\* unused: the descriptor is on the entry, and no entry was added.
C37_Witness ==
    /\ ~crashed
    /\ last.op = "open"
    /\ last.ret >= 0
    /\ disk.files[0].first_block = 0
    /\ LiveEntries(disk) = {1}
    /\ openFileDescTable[last.ret] # NULL
    /\ openFileDescTable[last.ret][1].fileEntry = 1

\* ------------------------------------------------------------------------
\* What a run of sfs-fsck touches: the positions of the byte map it reads
\* or writes (idx), the ids it hands to get_block (ids), and whether it
\* reaches abort().
\* ------------------------------------------------------------------------
NoAccess == [idx |-> {}, ids |-> {}, abort |-> FALSE]

JoinAccess(a, b) ==
    [idx |-> a.idx \cup b.idx, ids |-> a.ids \cup b.ids,
     abort |-> a.abort \/ b.abort]

\* get_block(id): abort() for an id above n_blocks.
get_block_Access(d, id) ==
    [idx |-> {}, ids |-> IF id = 0 THEN {} ELSE {id},
     abort |-> id # 0 /\ id > d.n_blocks]

\* The loop of check_blocklist from cur_id on.
RECURSIVE blocklistAccess(_, _, _, _, _)
blocklistAccess(d, bytemap, list_type, cur_id, acc) ==
    IF cur_id = 0 \/ cur_id > d.n_blocks THEN acc
    ELSE
    LET acc1 == [acc EXCEPT !.idx = @ \cup {cur_id}]
    IN  IF bytemap[cur_id] = list_type \/ bytemap[cur_id] # B_unvisited
        THEN acc1
        ELSE
        LET acc2 == JoinAccess(acc1, get_block_Access(d, cur_id))
        IN  IF acc2.abort THEN acc2
            ELSE blocklistAccess(d, markVisited(d, bytemap, list_type, cur_id),
                                 list_type, d.blk[cur_id].next_block, acc2)

\* check_blocklist: abort() for a list_type that is no list.
check_blocklist_Access(d, bytemap, first_id, list_type) ==
    IF list_type # B_free /\ list_type # B_rootdir /\ ~(list_type >= B_file0)
    THEN [NoAccess EXCEPT !.abort = TRUE]
    ELSE blocklistAccess(d, bytemap, list_type, first_id, NoAccess)

\* check_directory_entries from entry i on; file_tag is an unsigned char
\* and goes on counting after it has wrapped to 0.
RECURSIVE directoryAccess(_, _, _, _, _, _)
directoryAccess(d, files, bytemap, file_tag, i, acc) ==
    IF acc.abort \/ i >= DIR_ENTRIES_PER_BLOCK
    THEN [acc |-> acc, bytemap |-> bytemap, file_tag |-> file_tag]
    ELSE IF files[i].first_block = 0
    THEN directoryAccess(d, files, bytemap, file_tag, i + 1, acc)
    ELSE
    LET a == check_blocklist_Access(d, bytemap, files[i].first_block, file_tag)
        bytemap1 == IF a.abort THEN bytemap
                    ELSE check_blocklist(d, bytemap, files[i].first_block,
                                         file_tag).bytemap
    IN  directoryAccess(d, files, bytemap1, (file_tag + 1) % 256, i + 1,
                        JoinAccess(acc, a))

\* The loop of check_root_directory over the directory blocks from b on.
RECURSIVE rootdirAccess(_, _, _, _, _)
rootdirAccess(d, bytemap, file_tag, b, acc) ==
    IF acc.abort \/ b = 0 THEN [acc |-> acc, bytemap |-> bytemap]
    ELSE
    LET g == get_block_Access(d, b)
    IN  IF g.abort THEN [acc |-> JoinAccess(acc, g), bytemap |-> bytemap]
        ELSE
        LET r == CHOOSE x \in {directoryAccess(d, dirBlockFiles(d, b), bytemap,
                                               file_tag, 0,
                                               JoinAccess(acc, g))} : TRUE
        IN  rootdirAccess(d, r.bytemap, r.file_tag, d.blk[b].next_block, r.acc)

\* check_for_lost_blocks: strchr reads the byte map up to its first NUL and
\* get_block is called for every unvisited position before it.
lostAccess(d, bytemap) ==
    LET nul == CHOOSE i \in 0 .. d.n_blocks :
                  bytemap[i] = B_end_of_disk
                  /\ \A j \in 0 .. i - 1 : bytemap[j] # B_end_of_disk
        lost == {i \in 0 .. nul - 1 : bytemap[i] = B_unvisited}
    IN  [idx |-> 0 .. nul, ids |-> lost,
         abort |-> \E i \in lost : i > d.n_blocks]

\* main, for an image that passes the magic and size checks.
fsck_Access(d) ==
    LET bytemap0 == FreshBytemap(d)
        fa == check_blocklist_Access(d, bytemap0, d.freelist, B_free)
        f == check_blocklist(d, bytemap0, d.freelist, B_free)
        ra == check_blocklist_Access(d, f.bytemap, d.next_rootdir, B_rootdir)
        r == check_blocklist(d, f.bytemap, d.next_rootdir, B_rootdir)
        init == [idx |-> 0 .. d.n_blocks, ids |-> {}, abort |-> FALSE]
    IN  IF f.status # 0 THEN JoinAccess(init, fa)
        ELSE IF r.status # 0 THEN JoinAccess(init, JoinAccess(fa, ra))
        ELSE
        LET e == directoryAccess(d, d.files, r.bytemap, B_file0, 0,
                                 JoinAccess(init, JoinAccess(fa, ra)))
            x == rootdirAccess(d, e.bytemap, e.file_tag, d.next_rootdir, e.acc)
        IN  IF x.acc.abort THEN x.acc
            ELSE JoinAccess(x.acc, lostAccess(d, x.bytemap))

\* An image of 24 blocks (three pages of 4096 bytes) whose blocks 1 .. 23
\* are a well-linked chain of directory blocks; all 15 entries of the
\* superblock and of every directory block are in use, each with a
\* first_block past the volume.
ManyEntriesImage ==
    LET n == 24
        entry == [first_block |-> n + 1, size |-> 0,
                  name |-> paddedName(NameA)]
    IN  [magic |-> SFS_DISK_MAGIC,
         n_blocks |-> n,
         freelist |-> 0,
         next_rootdir |-> 1,
         files |-> [i \in 0 .. DIR_ENTRIES_PER_BLOCK - 1 |-> entry],
         blk |-> [b \in 1 .. n - 1 |->
                    [type |-> SFS_BLOCK_TYPE_DIR,
                     prev_block |-> b - 1,
                     next_block |-> IF b + 1 = n THEN 0 ELSE b + 1,
                     data |-> [k \in 0 .. BLOCK_DATA_SIZE - 1 |->
                                 IF k >= DIR_ENTRY_SIZE - BLOCK_HDR_SIZE
                                    /\ (k + BLOCK_HDR_SIZE) % DIR_ENTRY_SIZE = 0
                                 THEN n + 1
                                 ELSE IF (k + BLOCK_HDR_SIZE) % DIR_ENTRY_SIZE = 8
                                         /\ k >= DIR_ENTRY_SIZE
                                 THEN NameA[1] ELSE 0]]]]

\* fsck reads and writes its byte map only at 0 .. n_blocks, hands get_block
\* only ids in 1 .. n_blocks - 1 and does not reach abort().
StaysInBounds(d) ==
    LET t == CHOOSE x \in {fsck_Access(d)} : TRUE
    IN  /\ ~t.abort
        /\ t.idx \subseteq 0 .. d.n_blocks
        /\ t.ids \subseteq 1 .. d.n_blocks - 1

\* A list head, a first_block or a next pointer that fsck follows is
\* n_blocks or more.
PointsPastVolume(d) ==
    \/ d.freelist >= d.n_blocks
    \/ d.next_rootdir >= d.n_blocks
    \/ \E i \in LiveEntries(d) : d.files[i].first_block >= d.n_blocks
    \/ \E b \in fsck_Access(d).ids \cap (1 .. d.n_blocks - 1) :
          d.blk[b].next_block >= d.n_blocks

\* C38: on an image that passes the magic and size checks, whatever its
\* freelist, next_rootdir, directory entries and prev and next pointers
\* hold, fsck reads and writes its byte map only at 0 .. n_blocks, hands
\* get_block only ids in 1 .. n_blocks - 1, never reaches abort(), and
\* exits nonzero when a pointer it follows is n_blocks or more.
C38_FsckStaysInBounds ==
    /\ (disk.magic = SFS_DISK_MAGIC
          /\ disk.n_blocks * SFS_BLOCK_SIZE = ImageBytes) =>
          /\ StaysInBounds(disk)
          /\ PointsPastVolume(disk) => fsck(disk, ImageBytes) # 0
    /\ StaysInBounds(ManyEntriesImage)

\* The sizes sfs_format is asked for: small ones, the largest two it
\* does not reject, and sizes it rejects.
FormatSizes ==
    {0, PageSize, PageSize + 1, DiskBlocks * SFS_BLOCK_SIZE,
     SFS_MAX_DISK_SIZE - PageSize, SFS_MAX_DISK_SIZE,
     SFS_MAX_DISK_SIZE + PageSize}

\* C39: sfs_format succeeds for every size that is nonzero, a multiple of
\* the page size and at most SFS_MAX_DISK_SIZE, and stores size / 512 in
\* the superblock's n_blocks; for size = SFS_MAX_DISK_SIZE too the block
\* count fits the field and the assertion n_blocks <= UINT32_MAX holds.
C39_FormatAcceptsEverySize ==
    /\ \A diskSize \in FormatSizes :
          (diskSize # 0 /\ diskSize % PageSize = 0
             /\ diskSize <= SFS_MAX_DISK_SIZE) =>
              /\ formatAssertion(diskSize)
              /\ storedBlockCount(diskSize) = diskSize \div SFS_BLOCK_SIZE
    /\ \A diskSize \in {PageSize, DiskBlocks * SFS_BLOCK_SIZE,
                        SFS_MAX_DISK_SIZE} :
          LET f == sfs_format(0, diskSize)
          IN  /\ "crash" \notin DOMAIN f
              /\ f.ret = 0
              /\ f.disk.n_blocks = diskSize \div SFS_BLOCK_SIZE
    /\ last.op = "format" => ~crashed

====
